---- MODULE Spec2Model ----
(***************************************************************************)
(* A model of the lyrics service of ramith/ai-song-writer: the OAuth2      *)
(* client-credentials token cache (OAuthClient), the pure text functions   *)
(* of LyricsService (parseLyrics, countWords), and the generateLyrics      *)
(* handler with its outbound calls and its diagnostic records.             *)
(*                                                                         *)
(* Time is a clock of whole seconds.  A text is a sequence of characters.   *)
(* A character is a string: the character itself where a string of a       *)
(* module can hold it, and else its code point in the notation U+hhhh      *)
(* (four hexadecimal digits, five or six above U+FFFF).  A string holds    *)
(* the characters of ASCII but NUL and the grave accent U+0060, and of the *)
(* others those whose code point has a low byte of 80 to FF.               *)
(***************************************************************************)
EXTENDS Integers, Sequences, FiniteSets, TLC

(***************************************************************************)
(* Bounds of the model.                                                    *)
(***************************************************************************)
NumCallers == 2
MaxClock == 1
MaxCalls == 2
MaxLines == 4
MaxWordLen == 4
MaxServed == 21

(***************************************************************************)
(* Program constants.                                                      *)
(***************************************************************************)
BufferSeconds == 30
DefaultExpiresIn == 3600
StatusOK == 200

Callers == 1..NumCallers
NoOne == 0

VARIABLES
    now,              \* the wall clock, in seconds (time.Now())
    tokenEndpointOK,  \* whether o.tokenEndpoint parses as a URL (fixed at construction)
    accessToken,      \* o.accessToken
    expiresAt,        \* o.expiresAt, in nanoseconds of the clock
    readers,          \* o.mutex: the number of read locks held
    writer,           \* o.mutex: the caller holding the write lock, or NoOne
    pc,               \* each caller's position in GetAccessToken
    result,           \* each caller's return value, with the facts of its call
    calls,            \* GetAccessToken calls started
    exchanges,        \* token exchanges sent (requestNewToken reached httpClient.Do)
    lastExchange,     \* how the latest completed token exchange ended
    cohort,           \* the callers of the current group of overlapping cache misses
    cohortSent,       \* the token exchanges sent by callers of the cohort
    text,             \* the raw text handed to parseLyrics and countWords
    lyrics,           \* the GeneratedLyrics parseLyrics returned
    wordCount,        \* the count countWords returned
    applied,          \* which of the two functions GenerateLyrics has run on text
    clientID,         \* o.clientID
    gatewayOK,        \* whether a request can be built from s.gatewayURL (s.baseURL)
    hpc,              \* the position of the generateLyrics handler
    request,          \* the LyricsRequest as the handler bound it
    genReq,           \* the LyricsRequest as the handler passed it to GenerateLyrics
    cancelled,        \* where the handler was when the inbound request was cancelled
    startExchanges,   \* the value of exchanges when the handler started
    completions,      \* completion calls sent for the request being handled
    gen,              \* what GenerateLyrics returned, with the facts of its run
    response,         \* the HTTP response the handler wrote
    log,              \* the diagnostic records written for the request being handled
    served,           \* the requests of each client passed on to the completion API
    trips             \* the round trips the SDK has started for the request being handled

oauthVars == <<now, tokenEndpointOK, accessToken, expiresAt, readers, writer, pc,
               result, calls, exchanges, lastExchange, cohort, cohortSent>>

textVars == <<text, lyrics, wordCount, applied>>

reqVars == <<clientID, gatewayOK, hpc, request, genReq, cancelled, startExchanges,
             completions, gen, response, log>>

rateVars == <<served, trips>>

reqVarsButHpc == <<clientID, gatewayOK, request, genReq, cancelled, startExchanges,
                   completions, gen, response, log>>

vars == <<oauthVars, textVars, reqVars, rateVars>>

(***************************************************************************)
(* Strings: the functions of Go's strings package that the service calls,  *)
(* on sequences of characters.                                             *)
(***************************************************************************)
NL == "\n"
\* unicode.IsSpace: the white space of Latin-1 (tab, line feed, vertical
\* tab U+000B, form feed, carriage return, space, next line U+0085,
\* no-break space U+00A0) and the space separators of Unicode
SpaceChars ==
    {"\t", "\n", "", "\f", "\r", " ", "", " ", " ", "U+2000", "U+2001",
     "U+2002", "U+2003", "U+2004", "U+2005", "U+2006", "U+2007", "U+2008",
     "U+2009", "U+200A", "U+2028", "U+2029", "U+202F", "U+205F", "U+3000"}
IsSpace(ch) == ch \in SpaceChars

\* unicode.ToLower (Unicode 15.0, the tables of Go 1.21): the characters it
\* changes, each with the character it gives at the same place of LowerCase
UpperCase ==
    <<"A", "B", "C", "D", "E", "F", "G", "H", "I", "J", "K", "L", "M", "N",
      "O", "P", "Q", "R", "S", "T", "U", "V", "W", "X", "Y", "Z", "À", "Á",
      "Â", "Ã", "Ä", "Å", "Æ", "Ç", "È", "É", "Ê", "Ë", "Ì", "Í", "Î", "Ï",
      "Ð", "Ñ", "Ò", "Ó", "Ô", "Õ", "Ö", "Ø", "Ù", "Ú", "Û", "Ü", "Ý", "Þ",
      "U+0100", "U+0102", "U+0104", "U+0106", "U+0108", "U+010A", "U+010C",
      "U+010E", "U+0110", "U+0112", "U+0114", "U+0116", "U+0118", "U+011A",
      "U+011C", "U+011E", "U+0120", "U+0122", "U+0124", "U+0126", "U+0128",
      "U+012A", "U+012C", "U+012E", "U+0130", "U+0132", "U+0134", "U+0136",
      "U+0139", "U+013B", "U+013D", "U+013F", "U+0141", "U+0143", "U+0145",
      "U+0147", "U+014A", "U+014C", "U+014E", "U+0150", "U+0152", "U+0154",
      "U+0156", "U+0158", "U+015A", "U+015C", "U+015E", "U+0160", "U+0162",
      "U+0164", "U+0166", "U+0168", "U+016A", "U+016C", "U+016E", "U+0170",
      "U+0172", "U+0174", "U+0176", "U+0178", "U+0179", "U+017B", "U+017D",
      "Ɓ", "Ƃ", "Ƅ", "Ɔ", "Ƈ", "Ɖ", "Ɗ", "Ƌ", "Ǝ", "Ə", "Ɛ", "Ƒ", "Ɠ", "Ɣ",
      "Ɩ", "Ɨ", "Ƙ", "Ɯ", "Ɲ", "Ɵ", "Ơ", "Ƣ", "Ƥ", "Ʀ", "Ƨ", "Ʃ", "Ƭ", "Ʈ",
      "Ư", "Ʊ", "Ʋ", "Ƴ", "Ƶ", "Ʒ", "Ƹ", "Ƽ", "Ǆ", "ǅ", "Ǉ", "ǈ", "Ǌ", "ǋ",
      "Ǎ", "Ǐ", "Ǒ", "Ǔ", "Ǖ", "Ǘ", "Ǚ", "Ǜ", "Ǟ", "Ǡ", "Ǣ", "Ǥ", "Ǧ", "Ǩ",
      "Ǫ", "Ǭ", "Ǯ", "Ǳ", "ǲ", "Ǵ", "Ƕ", "Ƿ", "Ǹ", "Ǻ", "Ǽ", "Ǿ", "U+0200",
      "U+0202", "U+0204", "U+0206", "U+0208", "U+020A", "U+020C", "U+020E",
      "U+0210", "U+0212", "U+0214", "U+0216", "U+0218", "U+021A", "U+021C",
      "U+021E", "U+0220", "U+0222", "U+0224", "U+0226", "U+0228", "U+022A",
      "U+022C", "U+022E", "U+0230", "U+0232", "U+023A", "U+023B", "U+023D",
      "U+023E", "U+0241", "U+0243", "U+0244", "U+0245", "U+0246", "U+0248",
      "U+024A", "U+024C", "U+024E", "U+0370", "U+0372", "U+0376", "U+037F",
      "Ά", "Έ", "Ή", "Ί", "Ό", "Ύ", "Ώ", "Α", "Β", "Γ", "Δ", "Ε", "Ζ", "Η",
      "Θ", "Ι", "Κ", "Λ", "Μ", "Ν", "Ξ", "Ο", "Π", "Ρ", "Σ", "Τ", "Υ", "Φ",
      "Χ", "Ψ", "Ω", "Ϊ", "Ϋ", "Ϗ", "Ϙ", "Ϛ", "Ϝ", "Ϟ", "Ϡ", "Ϣ", "Ϥ", "Ϧ",
      "Ϩ", "Ϫ", "Ϭ", "Ϯ", "ϴ", "Ϸ", "Ϲ", "Ϻ", "Ͻ", "Ͼ", "Ͽ", "U+0400",
      "U+0401", "U+0402", "U+0403", "U+0404", "U+0405", "U+0406", "U+0407",
      "U+0408", "U+0409", "U+040A", "U+040B", "U+040C", "U+040D", "U+040E",
      "U+040F", "U+0410", "U+0411", "U+0412", "U+0413", "U+0414", "U+0415",
      "U+0416", "U+0417", "U+0418", "U+0419", "U+041A", "U+041B", "U+041C",
      "U+041D", "U+041E", "U+041F", "U+0420", "U+0421", "U+0422", "U+0423",
      "U+0424", "U+0425", "U+0426", "U+0427", "U+0428", "U+0429", "U+042A",
      "U+042B", "U+042C", "U+042D", "U+042E", "U+042F", "U+0460", "U+0462",
      "U+0464", "U+0466", "U+0468", "U+046A", "U+046C", "U+046E", "U+0470",
      "U+0472", "U+0474", "U+0476", "U+0478", "U+047A", "U+047C", "U+047E",
      "Ҁ", "Ҋ", "Ҍ", "Ҏ", "Ґ", "Ғ", "Ҕ", "Җ", "Ҙ", "Қ", "Ҝ", "Ҟ", "Ҡ", "Ң",
      "Ҥ", "Ҧ", "Ҩ", "Ҫ", "Ҭ", "Ү", "Ұ", "Ҳ", "Ҵ", "Ҷ", "Ҹ", "Һ", "Ҽ", "Ҿ",
      "Ӏ", "Ӂ", "Ӄ", "Ӆ", "Ӈ", "Ӊ", "Ӌ", "Ӎ", "Ӑ", "Ӓ", "Ӕ", "Ӗ", "Ә", "Ӛ",
      "Ӝ", "Ӟ", "Ӡ", "Ӣ", "Ӥ", "Ӧ", "Ө", "Ӫ", "Ӭ", "Ӯ", "Ӱ", "Ӳ", "Ӵ", "Ӷ",
      "Ӹ", "Ӻ", "Ӽ", "Ӿ", "U+0500", "U+0502", "U+0504", "U+0506", "U+0508",
      "U+050A", "U+050C", "U+050E", "U+0510", "U+0512", "U+0514", "U+0516",
      "U+0518", "U+051A", "U+051C", "U+051E", "U+0520", "U+0522", "U+0524",
      "U+0526", "U+0528", "U+052A", "U+052C", "U+052E", "U+0531", "U+0532",
      "U+0533", "U+0534", "U+0535", "U+0536", "U+0537", "U+0538", "U+0539",
      "U+053A", "U+053B", "U+053C", "U+053D", "U+053E", "U+053F", "U+0540",
      "U+0541", "U+0542", "U+0543", "U+0544", "U+0545", "U+0546", "U+0547",
      "U+0548", "U+0549", "U+054A", "U+054B", "U+054C", "U+054D", "U+054E",
      "U+054F", "U+0550", "U+0551", "U+0552", "U+0553", "U+0554", "U+0555",
      "U+0556", "Ⴀ", "Ⴁ", "Ⴂ", "Ⴃ", "Ⴄ", "Ⴅ", "Ⴆ", "Ⴇ", "Ⴈ", "Ⴉ", "Ⴊ", "Ⴋ",
      "Ⴌ", "Ⴍ", "Ⴎ", "Ⴏ", "Ⴐ", "Ⴑ", "Ⴒ", "Ⴓ", "Ⴔ", "Ⴕ", "Ⴖ", "Ⴗ", "Ⴘ", "Ⴙ",
      "Ⴚ", "Ⴛ", "Ⴜ", "Ⴝ", "Ⴞ", "Ⴟ", "Ⴠ", "Ⴡ", "Ⴢ", "Ⴣ", "Ⴤ", "Ⴥ", "Ⴧ", "Ⴭ",
      "Ꭰ", "Ꭱ", "Ꭲ", "Ꭳ", "Ꭴ", "Ꭵ", "Ꭶ", "Ꭷ", "Ꭸ", "Ꭹ", "Ꭺ", "Ꭻ", "Ꭼ", "Ꭽ",
      "Ꭾ", "Ꭿ", "Ꮀ", "Ꮁ", "Ꮂ", "Ꮃ", "Ꮄ", "Ꮅ", "Ꮆ", "Ꮇ", "Ꮈ", "Ꮉ", "Ꮊ", "Ꮋ",
      "Ꮌ", "Ꮍ", "Ꮎ", "Ꮏ", "Ꮐ", "Ꮑ", "Ꮒ", "Ꮓ", "Ꮔ", "Ꮕ", "Ꮖ", "Ꮗ", "Ꮘ", "Ꮙ",
      "Ꮚ", "Ꮛ", "Ꮜ", "Ꮝ", "Ꮞ", "Ꮟ", "Ꮠ", "Ꮡ", "Ꮢ", "Ꮣ", "Ꮤ", "Ꮥ", "Ꮦ", "Ꮧ",
      "Ꮨ", "Ꮩ", "Ꮪ", "Ꮫ", "Ꮬ", "Ꮭ", "Ꮮ", "Ꮯ", "Ꮰ", "Ꮱ", "Ꮲ", "Ꮳ", "Ꮴ", "Ꮵ",
      "Ꮶ", "Ꮷ", "Ꮸ", "Ꮹ", "Ꮺ", "Ꮻ", "Ꮼ", "Ꮽ", "Ꮾ", "Ꮿ", "Ᏸ", "Ᏹ", "Ᏺ", "Ᏻ",
      "Ᏼ", "Ᏽ", "Ა", "Ბ", "Გ", "Დ", "Ე", "Ვ", "Ზ", "Თ", "Ი", "Კ", "Ლ", "Მ",
      "Ნ", "Ო", "Პ", "Ჟ", "Რ", "Ს", "Ტ", "Უ", "Ფ", "Ქ", "Ღ", "Ყ", "Შ", "Ჩ",
      "Ც", "Ძ", "Წ", "Ჭ", "Ხ", "Ჯ", "Ჰ", "Ჱ", "Ჲ", "Ჳ", "Ჴ", "Ჵ", "Ჶ", "Ჷ",
      "Ჸ", "Ჹ", "Ჺ", "Ჽ", "Ჾ", "Ჿ", "U+1E00", "U+1E02", "U+1E04", "U+1E06",
      "U+1E08", "U+1E0A", "U+1E0C", "U+1E0E", "U+1E10", "U+1E12", "U+1E14",
      "U+1E16", "U+1E18", "U+1E1A", "U+1E1C", "U+1E1E", "U+1E20", "U+1E22",
      "U+1E24", "U+1E26", "U+1E28", "U+1E2A", "U+1E2C", "U+1E2E", "U+1E30",
      "U+1E32", "U+1E34", "U+1E36", "U+1E38", "U+1E3A", "U+1E3C", "U+1E3E",
      "U+1E40", "U+1E42", "U+1E44", "U+1E46", "U+1E48", "U+1E4A", "U+1E4C",
      "U+1E4E", "U+1E50", "U+1E52", "U+1E54", "U+1E56", "U+1E58", "U+1E5A",
      "U+1E5C", "U+1E5E", "U+1E60", "U+1E62", "U+1E64", "U+1E66", "U+1E68",
      "U+1E6A", "U+1E6C", "U+1E6E", "U+1E70", "U+1E72", "U+1E74", "U+1E76",
      "U+1E78", "U+1E7A", "U+1E7C", "U+1E7E", "Ẁ", "Ẃ", "Ẅ", "Ẇ", "Ẉ", "Ẋ",
      "Ẍ", "Ẏ", "Ẑ", "Ẓ", "Ẕ", "ẞ", "Ạ", "Ả", "Ấ", "Ầ", "Ẩ", "Ẫ", "Ậ", "Ắ",
      "Ằ", "Ẳ", "Ẵ", "Ặ", "Ẹ", "Ẻ", "Ẽ", "Ế", "Ề", "Ể", "Ễ", "Ệ", "Ỉ", "Ị",
      "Ọ", "Ỏ", "Ố", "Ồ", "Ổ", "Ỗ", "Ộ", "Ớ", "Ờ", "Ở", "Ỡ", "Ợ", "Ụ", "Ủ",
      "Ứ", "Ừ", "Ử", "Ữ", "Ự", "Ỳ", "Ỵ", "Ỷ", "Ỹ", "Ỻ", "Ỽ", "Ỿ", "U+1F08",
      "U+1F09", "U+1F0A", "U+1F0B", "U+1F0C", "U+1F0D", "U+1F0E", "U+1F0F",
      "U+1F18", "U+1F19", "U+1F1A", "U+1F1B", "U+1F1C", "U+1F1D", "U+1F28",
      "U+1F29", "U+1F2A", "U+1F2B", "U+1F2C", "U+1F2D", "U+1F2E", "U+1F2F",
      "U+1F38", "U+1F39", "U+1F3A", "U+1F3B", "U+1F3C", "U+1F3D", "U+1F3E",
      "U+1F3F", "U+1F48", "U+1F49", "U+1F4A", "U+1F4B", "U+1F4C", "U+1F4D",
      "U+1F59", "U+1F5B", "U+1F5D", "U+1F5F", "U+1F68", "U+1F69", "U+1F6A",
      "U+1F6B", "U+1F6C", "U+1F6D", "U+1F6E", "U+1F6F", "ᾈ", "ᾉ", "ᾊ", "ᾋ",
      "ᾌ", "ᾍ", "ᾎ", "ᾏ", "ᾘ", "ᾙ", "ᾚ", "ᾛ", "ᾜ", "ᾝ", "ᾞ", "ᾟ", "ᾨ", "ᾩ",
      "ᾪ", "ᾫ", "ᾬ", "ᾭ", "ᾮ", "ᾯ", "Ᾰ", "Ᾱ", "Ὰ", "Ά", "ᾼ", "Ὲ", "Έ", "Ὴ",
      "Ή", "ῌ", "Ῐ", "Ῑ", "Ὶ", "Ί", "Ῠ", "Ῡ", "Ὺ", "Ύ", "Ῥ", "Ὸ", "Ό", "Ὼ",
      "Ώ", "ῼ", "U+2126", "U+212A", "U+212B", "U+2132", "U+2160", "U+2161",
      "U+2162", "U+2163", "U+2164", "U+2165", "U+2166", "U+2167", "U+2168",
      "U+2169", "U+216A", "U+216B", "U+216C", "U+216D", "U+216E", "U+216F",
      "Ↄ", "Ⓐ", "Ⓑ", "Ⓒ", "Ⓓ", "Ⓔ", "Ⓕ", "Ⓖ", "Ⓗ", "Ⓘ", "Ⓙ", "Ⓚ", "Ⓛ", "Ⓜ",
      "Ⓝ", "Ⓞ", "Ⓟ", "Ⓠ", "Ⓡ", "Ⓢ", "Ⓣ", "Ⓤ", "Ⓥ", "Ⓦ", "Ⓧ", "Ⓨ", "Ⓩ",
      "U+2C00", "U+2C01", "U+2C02", "U+2C03", "U+2C04", "U+2C05", "U+2C06",
      "U+2C07", "U+2C08", "U+2C09", "U+2C0A", "U+2C0B", "U+2C0C", "U+2C0D",
      "U+2C0E", "U+2C0F", "U+2C10", "U+2C11", "U+2C12", "U+2C13", "U+2C14",
      "U+2C15", "U+2C16", "U+2C17", "U+2C18", "U+2C19", "U+2C1A", "U+2C1B",
      "U+2C1C", "U+2C1D", "U+2C1E", "U+2C1F", "U+2C20", "U+2C21", "U+2C22",
      "U+2C23", "U+2C24", "U+2C25", "U+2C26", "U+2C27", "U+2C28", "U+2C29",
      "U+2C2A", "U+2C2B", "U+2C2C", "U+2C2D", "U+2C2E", "U+2C2F", "U+2C60",
      "U+2C62", "U+2C63", "U+2C64", "U+2C67", "U+2C69", "U+2C6B", "U+2C6D",
      "U+2C6E", "U+2C6F", "U+2C70", "U+2C72", "U+2C75", "U+2C7E", "U+2C7F",
      "Ⲁ", "Ⲃ", "Ⲅ", "Ⲇ", "Ⲉ", "Ⲋ", "Ⲍ", "Ⲏ", "Ⲑ", "Ⲓ", "Ⲕ", "Ⲗ", "Ⲙ", "Ⲛ",
      "Ⲝ", "Ⲟ", "Ⲡ", "Ⲣ", "Ⲥ", "Ⲧ", "Ⲩ", "Ⲫ", "Ⲭ", "Ⲯ", "Ⲱ", "Ⲳ", "Ⲵ", "Ⲷ",
      "Ⲹ", "Ⲻ", "Ⲽ", "Ⲿ", "Ⳁ", "Ⳃ", "Ⳅ", "Ⳇ", "Ⳉ", "Ⳋ", "Ⳍ", "Ⳏ", "Ⳑ", "Ⳓ",
      "Ⳕ", "Ⳗ", "Ⳙ", "Ⳛ", "Ⳝ", "Ⳟ", "Ⳡ", "Ⳣ", "Ⳬ", "Ⳮ", "Ⳳ", "U+A640",
      "U+A642", "U+A644", "U+A646", "U+A648", "U+A64A", "U+A64C", "U+A64E",
      "U+A650", "U+A652", "U+A654", "U+A656", "U+A658", "U+A65A", "U+A65C",
      "U+A65E", "U+A660", "U+A662", "U+A664", "U+A666", "U+A668", "U+A66A",
      "U+A66C", "Ꚁ", "Ꚃ", "Ꚅ", "Ꚇ", "Ꚉ", "Ꚋ", "Ꚍ", "Ꚏ", "Ꚑ", "Ꚓ", "Ꚕ", "Ꚗ",
      "Ꚙ", "Ꚛ", "U+A722", "U+A724", "U+A726", "U+A728", "U+A72A", "U+A72C",
      "U+A72E", "U+A732", "U+A734", "U+A736", "U+A738", "U+A73A", "U+A73C",
      "U+A73E", "U+A740", "U+A742", "U+A744", "U+A746", "U+A748", "U+A74A",
      "U+A74C", "U+A74E", "U+A750", "U+A752", "U+A754", "U+A756", "U+A758",
      "U+A75A", "U+A75C", "U+A75E", "U+A760", "U+A762", "U+A764", "U+A766",
      "U+A768", "U+A76A", "U+A76C", "U+A76E", "U+A779", "U+A77B", "U+A77D",
      "U+A77E", "Ꞁ", "Ꞃ", "Ꞅ", "Ꞇ", "Ꞌ", "Ɥ", "Ꞑ", "Ꞓ", "Ꞗ", "Ꞙ", "Ꞛ", "Ꞝ",
      "Ꞟ", "Ꞡ", "Ꞣ", "Ꞥ", "Ꞧ", "Ꞩ", "Ɦ", "Ɜ", "Ɡ", "Ɬ", "Ɪ", "Ʞ", "Ʇ", "Ʝ",
      "Ꭓ", "Ꞵ", "Ꞷ", "Ꞹ", "Ꞻ", "Ꞽ", "Ꞿ", "Ꟁ", "Ꟃ", "Ꞔ", "Ʂ", "Ᶎ", "Ꟈ", "Ꟊ",
      "Ꟑ", "Ꟗ", "Ꟙ", "Ꟶ", "U+FF21", "U+FF22", "U+FF23", "U+FF24", "U+FF25",
      "U+FF26", "U+FF27", "U+FF28", "U+FF29", "U+FF2A", "U+FF2B", "U+FF2C",
      "U+FF2D", "U+FF2E", "U+FF2F", "U+FF30", "U+FF31", "U+FF32", "U+FF33",
      "U+FF34", "U+FF35", "U+FF36", "U+FF37", "U+FF38", "U+FF39", "U+FF3A",
      "U+10400", "U+10401", "U+10402", "U+10403", "U+10404", "U+10405",
      "U+10406", "U+10407", "U+10408", "U+10409", "U+1040A", "U+1040B",
      "U+1040C", "U+1040D", "U+1040E", "U+1040F", "U+10410", "U+10411",
      "U+10412", "U+10413", "U+10414", "U+10415", "U+10416", "U+10417",
      "U+10418", "U+10419", "U+1041A", "U+1041B", "U+1041C", "U+1041D",
      "U+1041E", "U+1041F", "U+10420", "U+10421", "U+10422", "U+10423",
      "U+10424", "U+10425", "U+10426", "U+10427", "U+104B0", "U+104B1",
      "U+104B2", "U+104B3", "U+104B4", "U+104B5", "U+104B6", "U+104B7",
      "U+104B8", "U+104B9", "U+104BA", "U+104BB", "U+104BC", "U+104BD",
      "U+104BE", "U+104BF", "U+104C0", "U+104C1", "U+104C2", "U+104C3",
      "U+104C4", "U+104C5", "U+104C6", "U+104C7", "U+104C8", "U+104C9",
      "U+104CA", "U+104CB", "U+104CC", "U+104CD", "U+104CE", "U+104CF",
      "U+104D0", "U+104D1", "U+104D2", "U+104D3", "U+10570", "U+10571",
      "U+10572", "U+10573", "U+10574", "U+10575", "U+10576", "U+10577",
      "U+10578", "U+10579", "U+1057A", "U+1057C", "U+1057D", "U+1057E",
      "U+1057F", "U+10580", "U+10581", "U+10582", "U+10583", "U+10584",
      "U+10585", "U+10586", "U+10587", "U+10588", "U+10589", "U+1058A",
      "U+1058C", "U+1058D", "U+1058E", "U+1058F", "U+10590", "U+10591",
      "U+10592", "U+10594", "U+10595", "U+10C80", "U+10C81", "U+10C82",
      "U+10C83", "U+10C84", "U+10C85", "U+10C86", "U+10C87", "U+10C88",
      "U+10C89", "U+10C8A", "U+10C8B", "U+10C8C", "U+10C8D", "U+10C8E",
      "U+10C8F", "U+10C90", "U+10C91", "U+10C92", "U+10C93", "U+10C94",
      "U+10C95", "U+10C96", "U+10C97", "U+10C98", "U+10C99", "U+10C9A",
      "U+10C9B", "U+10C9C", "U+10C9D", "U+10C9E", "U+10C9F", "U+10CA0",
      "U+10CA1", "U+10CA2", "U+10CA3", "U+10CA4", "U+10CA5", "U+10CA6",
      "U+10CA7", "U+10CA8", "U+10CA9", "U+10CAA", "U+10CAB", "U+10CAC",
      "U+10CAD", "U+10CAE", "U+10CAF", "U+10CB0", "U+10CB1", "U+10CB2",
      "U+118A0", "U+118A1", "U+118A2", "U+118A3", "U+118A4", "U+118A5",
      "U+118A6", "U+118A7", "U+118A8", "U+118A9", "U+118AA", "U+118AB",
      "U+118AC", "U+118AD", "U+118AE", "U+118AF", "U+118B0", "U+118B1",
      "U+118B2", "U+118B3", "U+118B4", "U+118B5", "U+118B6", "U+118B7",
      "U+118B8", "U+118B9", "U+118BA", "U+118BB", "U+118BC", "U+118BD",
      "U+118BE", "U+118BF", "U+16E40", "U+16E41", "U+16E42", "U+16E43",
      "U+16E44", "U+16E45", "U+16E46", "U+16E47", "U+16E48", "U+16E49",
      "U+16E4A", "U+16E4B", "U+16E4C", "U+16E4D", "U+16E4E", "U+16E4F",
      "U+16E50", "U+16E51", "U+16E52", "U+16E53", "U+16E54", "U+16E55",
      "U+16E56", "U+16E57", "U+16E58", "U+16E59", "U+16E5A", "U+16E5B",
      "U+16E5C", "U+16E5D", "U+16E5E", "U+16E5F", "U+1E900", "U+1E901",
      "U+1E902", "U+1E903", "U+1E904", "U+1E905", "U+1E906", "U+1E907",
      "U+1E908", "U+1E909", "U+1E90A", "U+1E90B", "U+1E90C", "U+1E90D",
      "U+1E90E", "U+1E90F", "U+1E910", "U+1E911", "U+1E912", "U+1E913",
      "U+1E914", "U+1E915", "U+1E916", "U+1E917", "U+1E918", "U+1E919",
      "U+1E91A", "U+1E91B", "U+1E91C", "U+1E91D", "U+1E91E", "U+1E91F",
      "U+1E920", "U+1E921">>
LowerCase ==
    <<"a", "b", "c", "d", "e", "f", "g", "h", "i", "j", "k", "l", "m", "n",
      "o", "p", "q", "r", "s", "t", "u", "v", "w", "x", "y", "z", "à", "á",
      "â", "ã", "ä", "å", "æ", "ç", "è", "é", "ê", "ë", "ì", "í", "î", "ï",
      "ð", "ñ", "ò", "ó", "ô", "õ", "ö", "ø", "ù", "ú", "û", "ü", "ý", "þ",
      "U+0101", "U+0103", "U+0105", "U+0107", "U+0109", "U+010B", "U+010D",
      "U+010F", "U+0111", "U+0113", "U+0115", "U+0117", "U+0119", "U+011B",
      "U+011D", "U+011F", "U+0121", "U+0123", "U+0125", "U+0127", "U+0129",
      "U+012B", "U+012D", "U+012F", "i", "U+0133", "U+0135", "U+0137",
      "U+013A", "U+013C", "U+013E", "U+0140", "U+0142", "U+0144", "U+0146",
      "U+0148", "U+014B", "U+014D", "U+014F", "U+0151", "U+0153", "U+0155",
      "U+0157", "U+0159", "U+015B", "U+015D", "U+015F", "U+0161", "U+0163",
      "U+0165", "U+0167", "U+0169", "U+016B", "U+016D", "U+016F", "U+0171",
      "U+0173", "U+0175", "U+0177", "ÿ", "U+017A", "U+017C", "U+017E",
      "U+0253", "ƃ", "ƅ", "U+0254", "ƈ", "U+0256", "U+0257", "ƌ", "ǝ",
      "U+0259", "U+025B", "ƒ", "U+0260", "U+0263", "U+0269", "U+0268", "ƙ",
      "U+026F", "U+0272", "U+0275", "ơ", "ƣ", "ƥ", "ʀ", "ƨ", "ʃ", "ƭ", "ʈ",
      "ư", "ʊ", "ʋ", "ƴ", "ƶ", "ʒ", "ƹ", "ƽ", "ǆ", "ǆ", "ǉ", "ǉ", "ǌ", "ǌ",
      "ǎ", "ǐ", "ǒ", "ǔ", "ǖ", "ǘ", "ǚ", "ǜ", "ǟ", "ǡ", "ǣ", "ǥ", "ǧ", "ǩ",
      "ǫ", "ǭ", "ǯ", "ǳ", "ǳ", "ǵ", "ƕ", "ƿ", "ǹ", "ǻ", "ǽ", "ǿ", "U+0201",
      "U+0203", "U+0205", "U+0207", "U+0209", "U+020B", "U+020D", "U+020F",
      "U+0211", "U+0213", "U+0215", "U+0217", "U+0219", "U+021B", "U+021D",
      "U+021F", "ƞ", "U+0223", "U+0225", "U+0227", "U+0229", "U+022B",
      "U+022D", "U+022F", "U+0231", "U+0233", "U+2C65", "U+023C", "ƚ",
      "U+2C66", "U+0242", "ƀ", "ʉ", "ʌ", "U+0247", "U+0249", "U+024B",
      "U+024D", "U+024F", "U+0371", "U+0373", "U+0377", "ϳ", "ά", "έ", "ή",
      "ί", "ό", "ύ", "ώ", "α", "β", "γ", "δ", "ε", "ζ", "η", "θ", "ι", "κ",
      "λ", "μ", "ν", "ξ", "ο", "π", "ρ", "σ", "τ", "υ", "φ", "χ", "ψ", "ω",
      "ϊ", "ϋ", "ϗ", "ϙ", "ϛ", "ϝ", "ϟ", "ϡ", "ϣ", "ϥ", "ϧ", "ϩ", "ϫ", "ϭ",
      "ϯ", "θ", "ϸ", "ϲ", "ϻ", "U+037B", "U+037C", "U+037D", "U+0450",
      "U+0451", "U+0452", "U+0453", "U+0454", "U+0455", "U+0456", "U+0457",
      "U+0458", "U+0459", "U+045A", "U+045B", "U+045C", "U+045D", "U+045E",
      "U+045F", "U+0430", "U+0431", "U+0432", "U+0433", "U+0434", "U+0435",
      "U+0436", "U+0437", "U+0438", "U+0439", "U+043A", "U+043B", "U+043C",
      "U+043D", "U+043E", "U+043F", "U+0440", "U+0441", "U+0442", "U+0443",
      "U+0444", "U+0445", "U+0446", "U+0447", "U+0448", "U+0449", "U+044A",
      "U+044B", "U+044C", "U+044D", "U+044E", "U+044F", "U+0461", "U+0463",
      "U+0465", "U+0467", "U+0469", "U+046B", "U+046D", "U+046F", "U+0471",
      "U+0473", "U+0475", "U+0477", "U+0479", "U+047B", "U+047D", "U+047F",
      "ҁ", "ҋ", "ҍ", "ҏ", "ґ", "ғ", "ҕ", "җ", "ҙ", "қ", "ҝ", "ҟ", "ҡ", "ң",
      "ҥ", "ҧ", "ҩ", "ҫ", "ҭ", "ү", "ұ", "ҳ", "ҵ", "ҷ", "ҹ", "һ", "ҽ", "ҿ",
      "ӏ", "ӂ", "ӄ", "ӆ", "ӈ", "ӊ", "ӌ", "ӎ", "ӑ", "ӓ", "ӕ", "ӗ", "ә", "ӛ",
      "ӝ", "ӟ", "ӡ", "ӣ", "ӥ", "ӧ", "ө", "ӫ", "ӭ", "ӯ", "ӱ", "ӳ", "ӵ", "ӷ",
      "ӹ", "ӻ", "ӽ", "ӿ", "U+0501", "U+0503", "U+0505", "U+0507", "U+0509",
      "U+050B", "U+050D", "U+050F", "U+0511", "U+0513", "U+0515", "U+0517",
      "U+0519", "U+051B", "U+051D", "U+051F", "U+0521", "U+0523", "U+0525",
      "U+0527", "U+0529", "U+052B", "U+052D", "U+052F", "U+0561", "U+0562",
      "U+0563", "U+0564", "U+0565", "U+0566", "U+0567", "U+0568", "U+0569",
      "U+056A", "U+056B", "U+056C", "U+056D", "U+056E", "U+056F", "U+0570",
      "U+0571", "U+0572", "U+0573", "U+0574", "U+0575", "U+0576", "U+0577",
      "U+0578", "U+0579", "U+057A", "U+057B", "U+057C", "U+057D", "U+057E",
      "U+057F", "ր", "ց", "ւ", "փ", "ք", "օ", "ֆ", "U+2D00", "U+2D01",
      "U+2D02", "U+2D03", "U+2D04", "U+2D05", "U+2D06", "U+2D07", "U+2D08",
      "U+2D09", "U+2D0A", "U+2D0B", "U+2D0C", "U+2D0D", "U+2D0E", "U+2D0F",
      "U+2D10", "U+2D11", "U+2D12", "U+2D13", "U+2D14", "U+2D15", "U+2D16",
      "U+2D17", "U+2D18", "U+2D19", "U+2D1A", "U+2D1B", "U+2D1C", "U+2D1D",
      "U+2D1E", "U+2D1F", "U+2D20", "U+2D21", "U+2D22", "U+2D23", "U+2D24",
      "U+2D25", "U+2D27", "U+2D2D", "U+AB70", "U+AB71", "U+AB72", "U+AB73",
      "U+AB74", "U+AB75", "U+AB76", "U+AB77", "U+AB78", "U+AB79", "U+AB7A",
      "U+AB7B", "U+AB7C", "U+AB7D", "U+AB7E", "U+AB7F", "ꮀ", "ꮁ", "ꮂ", "ꮃ",
      "ꮄ", "ꮅ", "ꮆ", "ꮇ", "ꮈ", "ꮉ", "ꮊ", "ꮋ", "ꮌ", "ꮍ", "ꮎ", "ꮏ", "ꮐ", "ꮑ",
      "ꮒ", "ꮓ", "ꮔ", "ꮕ", "ꮖ", "ꮗ", "ꮘ", "ꮙ", "ꮚ", "ꮛ", "ꮜ", "ꮝ", "ꮞ", "ꮟ",
      "ꮠ", "ꮡ", "ꮢ", "ꮣ", "ꮤ", "ꮥ", "ꮦ", "ꮧ", "ꮨ", "ꮩ", "ꮪ", "ꮫ", "ꮬ", "ꮭ",
      "ꮮ", "ꮯ", "ꮰ", "ꮱ", "ꮲ", "ꮳ", "ꮴ", "ꮵ", "ꮶ", "ꮷ", "ꮸ", "ꮹ", "ꮺ", "ꮻ",
      "ꮼ", "ꮽ", "ꮾ", "ꮿ", "ᏸ", "ᏹ", "ᏺ", "ᏻ", "ᏼ", "ᏽ", "ა", "ბ", "გ", "დ",
      "ე", "ვ", "ზ", "თ", "ი", "კ", "ლ", "მ", "ნ", "ო", "პ", "ჟ", "რ", "ს",
      "ტ", "უ", "ფ", "ქ", "ღ", "ყ", "შ", "ჩ", "ც", "ძ", "წ", "ჭ", "ხ", "ჯ",
      "ჰ", "ჱ", "ჲ", "ჳ", "ჴ", "ჵ", "ჶ", "ჷ", "ჸ", "ჹ", "ჺ", "ჽ", "ჾ", "ჿ",
      "U+1E01", "U+1E03", "U+1E05", "U+1E07", "U+1E09", "U+1E0B", "U+1E0D",
      "U+1E0F", "U+1E11", "U+1E13", "U+1E15", "U+1E17", "U+1E19", "U+1E1B",
      "U+1E1D", "U+1E1F", "U+1E21", "U+1E23", "U+1E25", "U+1E27", "U+1E29",
      "U+1E2B", "U+1E2D", "U+1E2F", "U+1E31", "U+1E33", "U+1E35", "U+1E37",
      "U+1E39", "U+1E3B", "U+1E3D", "U+1E3F", "U+1E41", "U+1E43", "U+1E45",
      "U+1E47", "U+1E49", "U+1E4B", "U+1E4D", "U+1E4F", "U+1E51", "U+1E53",
      "U+1E55", "U+1E57", "U+1E59", "U+1E5B", "U+1E5D", "U+1E5F", "U+1E61",
      "U+1E63", "U+1E65", "U+1E67", "U+1E69", "U+1E6B", "U+1E6D", "U+1E6F",
      "U+1E71", "U+1E73", "U+1E75", "U+1E77", "U+1E79", "U+1E7B", "U+1E7D",
      "U+1E7F", "ẁ", "ẃ", "ẅ", "ẇ", "ẉ", "ẋ", "ẍ", "ẏ", "ẑ", "ẓ", "ẕ", "ß",
      "ạ", "ả", "ấ", "ầ", "ẩ", "ẫ", "ậ", "ắ", "ằ", "ẳ", "ẵ", "ặ", "ẹ", "ẻ",
      "ẽ", "ế", "ề", "ể", "ễ", "ệ", "ỉ", "ị", "ọ", "ỏ", "ố", "ồ", "ổ", "ỗ",
      "ộ", "ớ", "ờ", "ở", "ỡ", "ợ", "ụ", "ủ", "ứ", "ừ", "ử", "ữ", "ự", "ỳ",
      "ỵ", "ỷ", "ỹ", "ỻ", "ỽ", "ỿ", "U+1F00", "U+1F01", "U+1F02", "U+1F03",
      "U+1F04", "U+1F05", "U+1F06", "U+1F07", "U+1F10", "U+1F11", "U+1F12",
      "U+1F13", "U+1F14", "U+1F15", "U+1F20", "U+1F21", "U+1F22", "U+1F23",
      "U+1F24", "U+1F25", "U+1F26", "U+1F27", "U+1F30", "U+1F31", "U+1F32",
      "U+1F33", "U+1F34", "U+1F35", "U+1F36", "U+1F37", "U+1F40", "U+1F41",
      "U+1F42", "U+1F43", "U+1F44", "U+1F45", "U+1F51", "U+1F53", "U+1F55",
      "U+1F57", "U+1F60", "U+1F61", "U+1F62", "U+1F63", "U+1F64", "U+1F65",
      "U+1F66", "U+1F67", "ᾀ", "ᾁ", "ᾂ", "ᾃ", "ᾄ", "ᾅ", "ᾆ", "ᾇ", "ᾐ", "ᾑ",
      "ᾒ", "ᾓ", "ᾔ", "ᾕ", "ᾖ", "ᾗ", "ᾠ", "ᾡ", "ᾢ", "ᾣ", "ᾤ", "ᾥ", "ᾦ", "ᾧ",
      "ᾰ", "ᾱ", "U+1F70", "U+1F71", "ᾳ", "U+1F72", "U+1F73", "U+1F74",
      "U+1F75", "ῃ", "ῐ", "ῑ", "U+1F76", "U+1F77", "ῠ", "ῡ", "U+1F7A",
      "U+1F7B", "ῥ", "U+1F78", "U+1F79", "U+1F7C", "U+1F7D", "ῳ", "ω", "k",
      "å", "U+214E", "U+2170", "U+2171", "U+2172", "U+2173", "U+2174",
      "U+2175", "U+2176", "U+2177", "U+2178", "U+2179", "U+217A", "U+217B",
      "U+217C", "U+217D", "U+217E", "U+217F", "ↄ", "ⓐ", "ⓑ", "ⓒ", "ⓓ", "ⓔ",
      "ⓕ", "ⓖ", "ⓗ", "ⓘ", "ⓙ", "ⓚ", "ⓛ", "ⓜ", "ⓝ", "ⓞ", "ⓟ", "ⓠ", "ⓡ", "ⓢ",
      "ⓣ", "ⓤ", "ⓥ", "ⓦ", "ⓧ", "ⓨ", "ⓩ", "U+2C30", "U+2C31", "U+2C32",
      "U+2C33", "U+2C34", "U+2C35", "U+2C36", "U+2C37", "U+2C38", "U+2C39",
      "U+2C3A", "U+2C3B", "U+2C3C", "U+2C3D", "U+2C3E", "U+2C3F", "U+2C40",
      "U+2C41", "U+2C42", "U+2C43", "U+2C44", "U+2C45", "U+2C46", "U+2C47",
      "U+2C48", "U+2C49", "U+2C4A", "U+2C4B", "U+2C4C", "U+2C4D", "U+2C4E",
      "U+2C4F", "U+2C50", "U+2C51", "U+2C52", "U+2C53", "U+2C54", "U+2C55",
      "U+2C56", "U+2C57", "U+2C58", "U+2C59", "U+2C5A", "U+2C5B", "U+2C5C",
      "U+2C5D", "U+2C5E", "U+2C5F", "U+2C61", "U+026B", "U+1D7D", "U+027D",
      "U+2C68", "U+2C6A", "U+2C6C", "U+0251", "U+0271", "U+0250", "U+0252",
      "U+2C73", "U+2C76", "U+023F", "U+0240", "ⲁ", "ⲃ", "ⲅ", "ⲇ", "ⲉ", "ⲋ",
      "ⲍ", "ⲏ", "ⲑ", "ⲓ", "ⲕ", "ⲗ", "ⲙ", "ⲛ", "ⲝ", "ⲟ", "ⲡ", "ⲣ", "ⲥ", "ⲧ",
      "ⲩ", "ⲫ", "ⲭ", "ⲯ", "ⲱ", "ⲳ", "ⲵ", "ⲷ", "ⲹ", "ⲻ", "ⲽ", "ⲿ", "ⳁ", "ⳃ",
      "ⳅ", "ⳇ", "ⳉ", "ⳋ", "ⳍ", "ⳏ", "ⳑ", "ⳓ", "ⳕ", "ⳗ", "ⳙ", "ⳛ", "ⳝ", "ⳟ",
      "ⳡ", "ⳣ", "ⳬ", "ⳮ", "ⳳ", "U+A641", "U+A643", "U+A645", "U+A647",
      "U+A649", "U+A64B", "U+A64D", "U+A64F", "U+A651", "U+A653", "U+A655",
      "U+A657", "U+A659", "U+A65B", "U+A65D", "U+A65F", "U+A661", "U+A663",
      "U+A665", "U+A667", "U+A669", "U+A66B", "U+A66D", "ꚁ", "ꚃ", "ꚅ", "ꚇ",
      "ꚉ", "ꚋ", "ꚍ", "ꚏ", "ꚑ", "ꚓ", "ꚕ", "ꚗ", "ꚙ", "ꚛ", "U+A723", "U+A725",
      "U+A727", "U+A729", "U+A72B", "U+A72D", "U+A72F", "U+A733", "U+A735",
      "U+A737", "U+A739", "U+A73B", "U+A73D", "U+A73F", "U+A741", "U+A743",
      "U+A745", "U+A747", "U+A749", "U+A74B", "U+A74D", "U+A74F", "U+A751",
      "U+A753", "U+A755", "U+A757", "U+A759", "U+A75B", "U+A75D", "U+A75F",
      "U+A761", "U+A763", "U+A765", "U+A767", "U+A769", "U+A76B", "U+A76D",
      "U+A76F", "U+A77A", "U+A77C", "U+1D79", "U+A77F", "ꞁ", "ꞃ", "ꞅ", "ꞇ",
      "ꞌ", "U+0265", "ꞑ", "ꞓ", "ꞗ", "ꞙ", "ꞛ", "ꞝ", "ꞟ", "ꞡ", "ꞣ", "ꞥ", "ꞧ",
      "ꞩ", "U+0266", "U+025C", "U+0261", "U+026C", "U+026A", "ʞ", "ʇ", "ʝ",
      "U+AB53", "ꞵ", "ꞷ", "ꞹ", "ꞻ", "ꞽ", "ꞿ", "ꟁ", "ꟃ", "ꞔ", "ʂ", "ᶎ", "ꟈ",
      "ꟊ", "ꟑ", "ꟗ", "ꟙ", "ꟶ", "U+FF41", "U+FF42", "U+FF43", "U+FF44",
      "U+FF45", "U+FF46", "U+FF47", "U+FF48", "U+FF49", "U+FF4A", "U+FF4B",
      "U+FF4C", "U+FF4D", "U+FF4E", "U+FF4F", "U+FF50", "U+FF51", "U+FF52",
      "U+FF53", "U+FF54", "U+FF55", "U+FF56", "U+FF57", "U+FF58", "U+FF59",
      "U+FF5A", "U+10428", "U+10429", "U+1042A", "U+1042B", "U+1042C",
      "U+1042D", "U+1042E", "U+1042F", "U+10430", "U+10431", "U+10432",
      "U+10433", "U+10434", "U+10435", "U+10436", "U+10437", "U+10438",
      "U+10439", "U+1043A", "U+1043B", "U+1043C", "U+1043D", "U+1043E",
      "U+1043F", "U+10440", "U+10441", "U+10442", "U+10443", "U+10444",
      "U+10445", "U+10446", "U+10447", "U+10448", "U+10449", "U+1044A",
      "U+1044B", "U+1044C", "U+1044D", "U+1044E", "U+1044F", "U+104D8",
      "U+104D9", "U+104DA", "U+104DB", "U+104DC", "U+104DD", "U+104DE",
      "U+104DF", "U+104E0", "U+104E1", "U+104E2", "U+104E3", "U+104E4",
      "U+104E5", "U+104E6", "U+104E7", "U+104E8", "U+104E9", "U+104EA",
      "U+104EB", "U+104EC", "U+104ED", "U+104EE", "U+104EF", "U+104F0",
      "U+104F1", "U+104F2", "U+104F3", "U+104F4", "U+104F5", "U+104F6",
      "U+104F7", "U+104F8", "U+104F9", "U+104FA", "U+104FB", "U+10597",
      "U+10598", "U+10599", "U+1059A", "U+1059B", "U+1059C", "U+1059D",
      "U+1059E", "U+1059F", "U+105A0", "U+105A1", "U+105A3", "U+105A4",
      "U+105A5", "U+105A6", "U+105A7", "U+105A8", "U+105A9", "U+105AA",
      "U+105AB", "U+105AC", "U+105AD", "U+105AE", "U+105AF", "U+105B0",
      "U+105B1", "U+105B3", "U+105B4", "U+105B5", "U+105B6", "U+105B7",
      "U+105B8", "U+105B9", "U+105BB", "U+105BC", "U+10CC0", "U+10CC1",
      "U+10CC2", "U+10CC3", "U+10CC4", "U+10CC5", "U+10CC6", "U+10CC7",
      "U+10CC8", "U+10CC9", "U+10CCA", "U+10CCB", "U+10CCC", "U+10CCD",
      "U+10CCE", "U+10CCF", "U+10CD0", "U+10CD1", "U+10CD2", "U+10CD3",
      "U+10CD4", "U+10CD5", "U+10CD6", "U+10CD7", "U+10CD8", "U+10CD9",
      "U+10CDA", "U+10CDB", "U+10CDC", "U+10CDD", "U+10CDE", "U+10CDF",
      "U+10CE0", "U+10CE1", "U+10CE2", "U+10CE3", "U+10CE4", "U+10CE5",
      "U+10CE6", "U+10CE7", "U+10CE8", "U+10CE9", "U+10CEA", "U+10CEB",
      "U+10CEC", "U+10CED", "U+10CEE", "U+10CEF", "U+10CF0", "U+10CF1",
      "U+10CF2", "U+118C0", "U+118C1", "U+118C2", "U+118C3", "U+118C4",
      "U+118C5", "U+118C6", "U+118C7", "U+118C8", "U+118C9", "U+118CA",
      "U+118CB", "U+118CC", "U+118CD", "U+118CE", "U+118CF", "U+118D0",
      "U+118D1", "U+118D2", "U+118D3", "U+118D4", "U+118D5", "U+118D6",
      "U+118D7", "U+118D8", "U+118D9", "U+118DA", "U+118DB", "U+118DC",
      "U+118DD", "U+118DE", "U+118DF", "U+16E60", "U+16E61", "U+16E62",
      "U+16E63", "U+16E64", "U+16E65", "U+16E66", "U+16E67", "U+16E68",
      "U+16E69", "U+16E6A", "U+16E6B", "U+16E6C", "U+16E6D", "U+16E6E",
      "U+16E6F", "U+16E70", "U+16E71", "U+16E72", "U+16E73", "U+16E74",
      "U+16E75", "U+16E76", "U+16E77", "U+16E78", "U+16E79", "U+16E7A",
      "U+16E7B", "U+16E7C", "U+16E7D", "U+16E7E", "U+16E7F", "U+1E922",
      "U+1E923", "U+1E924", "U+1E925", "U+1E926", "U+1E927", "U+1E928",
      "U+1E929", "U+1E92A", "U+1E92B", "U+1E92C", "U+1E92D", "U+1E92E",
      "U+1E92F", "U+1E930", "U+1E931", "U+1E932", "U+1E933", "U+1E934",
      "U+1E935", "U+1E936", "U+1E937", "U+1E938", "U+1E939", "U+1E93A",
      "U+1E93B", "U+1E93C", "U+1E93D", "U+1E93E", "U+1E93F", "U+1E940",
      "U+1E941", "U+1E942", "U+1E943">>

\* unicode.IsUpper: the letters of category Lu
UpperLetters ==
    {"A", "B", "C", "D", "E", "F", "G", "H", "I", "J", "K", "L", "M", "N", "O",
     "P", "Q", "R", "S", "T", "U", "V", "W", "X", "Y", "Z", "À", "Á", "Â", "Ã",
     "Ä", "Å", "Æ", "Ç", "È", "É", "Ê", "Ë", "Ì", "Í", "Î", "Ï", "Ð", "Ñ", "Ò",
     "Ó", "Ô", "Õ", "Ö", "Ø", "Ù", "Ú", "Û", "Ü", "Ý", "Þ", "U+0100", "U+0102",
     "U+0104", "U+0106", "U+0108", "U+010A", "U+010C", "U+010E", "U+0110",
     "U+0112", "U+0114", "U+0116", "U+0118", "U+011A", "U+011C", "U+011E",
     "U+0120", "U+0122", "U+0124", "U+0126", "U+0128", "U+012A", "U+012C",
     "U+012E", "U+0130", "U+0132", "U+0134", "U+0136", "U+0139", "U+013B",
     "U+013D", "U+013F", "U+0141", "U+0143", "U+0145", "U+0147", "U+014A",
     "U+014C", "U+014E", "U+0150", "U+0152", "U+0154", "U+0156", "U+0158",
     "U+015A", "U+015C", "U+015E", "U+0160", "U+0162", "U+0164", "U+0166",
     "U+0168", "U+016A", "U+016C", "U+016E", "U+0170", "U+0172", "U+0174",
     "U+0176", "U+0178", "U+0179", "U+017B", "U+017D", "Ɓ", "Ƃ", "Ƅ", "Ɔ", "Ƈ",
     "Ɖ", "Ɗ", "Ƌ", "Ǝ", "Ə", "Ɛ", "Ƒ", "Ɠ", "Ɣ", "Ɩ", "Ɨ", "Ƙ", "Ɯ", "Ɲ", "Ɵ",
     "Ơ", "Ƣ", "Ƥ", "Ʀ", "Ƨ", "Ʃ", "Ƭ", "Ʈ", "Ư", "Ʊ", "Ʋ", "Ƴ", "Ƶ", "Ʒ", "Ƹ",
     "Ƽ", "Ǆ", "Ǉ", "Ǌ", "Ǎ", "Ǐ", "Ǒ", "Ǔ", "Ǖ", "Ǘ", "Ǚ", "Ǜ", "Ǟ", "Ǡ", "Ǣ",
     "Ǥ", "Ǧ", "Ǩ", "Ǫ", "Ǭ", "Ǯ", "Ǳ", "Ǵ", "Ƕ", "Ƿ", "Ǹ", "Ǻ", "Ǽ", "Ǿ",
     "U+0200", "U+0202", "U+0204", "U+0206", "U+0208", "U+020A", "U+020C",
     "U+020E", "U+0210", "U+0212", "U+0214", "U+0216", "U+0218", "U+021A",
     "U+021C", "U+021E", "U+0220", "U+0222", "U+0224", "U+0226", "U+0228",
     "U+022A", "U+022C", "U+022E", "U+0230", "U+0232", "U+023A", "U+023B",
     "U+023D", "U+023E", "U+0241", "U+0243", "U+0244", "U+0245", "U+0246",
     "U+0248", "U+024A", "U+024C", "U+024E", "U+0370", "U+0372", "U+0376",
     "U+037F", "Ά", "Έ", "Ή", "Ί", "Ό", "Ύ", "Ώ", "Α", "Β", "Γ", "Δ", "Ε", "Ζ",
     "Η", "Θ", "Ι", "Κ", "Λ", "Μ", "Ν", "Ξ", "Ο", "Π", "Ρ", "Σ", "Τ", "Υ", "Φ",
     "Χ", "Ψ", "Ω", "Ϊ", "Ϋ", "Ϗ", "ϒ", "ϓ", "ϔ", "Ϙ", "Ϛ", "Ϝ", "Ϟ", "Ϡ", "Ϣ",
     "Ϥ", "Ϧ", "Ϩ", "Ϫ", "Ϭ", "Ϯ", "ϴ", "Ϸ", "Ϲ", "Ϻ", "Ͻ", "Ͼ", "Ͽ", "U+0400",
     "U+0401", "U+0402", "U+0403", "U+0404", "U+0405", "U+0406", "U+0407",
     "U+0408", "U+0409", "U+040A", "U+040B", "U+040C", "U+040D", "U+040E",
     "U+040F", "U+0410", "U+0411", "U+0412", "U+0413", "U+0414", "U+0415",
     "U+0416", "U+0417", "U+0418", "U+0419", "U+041A", "U+041B", "U+041C",
     "U+041D", "U+041E", "U+041F", "U+0420", "U+0421", "U+0422", "U+0423",
     "U+0424", "U+0425", "U+0426", "U+0427", "U+0428", "U+0429", "U+042A",
     "U+042B", "U+042C", "U+042D", "U+042E", "U+042F", "U+0460", "U+0462",
     "U+0464", "U+0466", "U+0468", "U+046A", "U+046C", "U+046E", "U+0470",
     "U+0472", "U+0474", "U+0476", "U+0478", "U+047A", "U+047C", "U+047E", "Ҁ",
     "Ҋ", "Ҍ", "Ҏ", "Ґ", "Ғ", "Ҕ", "Җ", "Ҙ", "Қ", "Ҝ", "Ҟ", "Ҡ", "Ң", "Ҥ", "Ҧ",
     "Ҩ", "Ҫ", "Ҭ", "Ү", "Ұ", "Ҳ", "Ҵ", "Ҷ", "Ҹ", "Һ", "Ҽ", "Ҿ", "Ӏ", "Ӂ", "Ӄ",
     "Ӆ", "Ӈ", "Ӊ", "Ӌ", "Ӎ", "Ӑ", "Ӓ", "Ӕ", "Ӗ", "Ә", "Ӛ", "Ӝ", "Ӟ", "Ӡ", "Ӣ",
     "Ӥ", "Ӧ", "Ө", "Ӫ", "Ӭ", "Ӯ", "Ӱ", "Ӳ", "Ӵ", "Ӷ", "Ӹ", "Ӻ", "Ӽ", "Ӿ",
     "U+0500", "U+0502", "U+0504", "U+0506", "U+0508", "U+050A", "U+050C",
     "U+050E", "U+0510", "U+0512", "U+0514", "U+0516", "U+0518", "U+051A",
     "U+051C", "U+051E", "U+0520", "U+0522", "U+0524", "U+0526", "U+0528",
     "U+052A", "U+052C", "U+052E", "U+0531", "U+0532", "U+0533", "U+0534",
     "U+0535", "U+0536", "U+0537", "U+0538", "U+0539", "U+053A", "U+053B",
     "U+053C", "U+053D", "U+053E", "U+053F", "U+0540", "U+0541", "U+0542",
     "U+0543", "U+0544", "U+0545", "U+0546", "U+0547", "U+0548", "U+0549",
     "U+054A", "U+054B", "U+054C", "U+054D", "U+054E", "U+054F", "U+0550",
     "U+0551", "U+0552", "U+0553", "U+0554", "U+0555", "U+0556", "Ⴀ", "Ⴁ", "Ⴂ",
     "Ⴃ", "Ⴄ", "Ⴅ", "Ⴆ", "Ⴇ", "Ⴈ", "Ⴉ", "Ⴊ", "Ⴋ", "Ⴌ", "Ⴍ", "Ⴎ", "Ⴏ", "Ⴐ", "Ⴑ",
     "Ⴒ", "Ⴓ", "Ⴔ", "Ⴕ", "Ⴖ", "Ⴗ", "Ⴘ", "Ⴙ", "Ⴚ", "Ⴛ", "Ⴜ", "Ⴝ", "Ⴞ", "Ⴟ", "Ⴠ",
     "Ⴡ", "Ⴢ", "Ⴣ", "Ⴤ", "Ⴥ", "Ⴧ", "Ⴭ", "Ꭰ", "Ꭱ", "Ꭲ", "Ꭳ", "Ꭴ", "Ꭵ", "Ꭶ", "Ꭷ",
     "Ꭸ", "Ꭹ", "Ꭺ", "Ꭻ", "Ꭼ", "Ꭽ", "Ꭾ", "Ꭿ", "Ꮀ", "Ꮁ", "Ꮂ", "Ꮃ", "Ꮄ", "Ꮅ", "Ꮆ",
     "Ꮇ", "Ꮈ", "Ꮉ", "Ꮊ", "Ꮋ", "Ꮌ", "Ꮍ", "Ꮎ", "Ꮏ", "Ꮐ", "Ꮑ", "Ꮒ", "Ꮓ", "Ꮔ", "Ꮕ",
     "Ꮖ", "Ꮗ", "Ꮘ", "Ꮙ", "Ꮚ", "Ꮛ", "Ꮜ", "Ꮝ", "Ꮞ", "Ꮟ", "Ꮠ", "Ꮡ", "Ꮢ", "Ꮣ", "Ꮤ",
     "Ꮥ", "Ꮦ", "Ꮧ", "Ꮨ", "Ꮩ", "Ꮪ", "Ꮫ", "Ꮬ", "Ꮭ", "Ꮮ", "Ꮯ", "Ꮰ", "Ꮱ", "Ꮲ", "Ꮳ",
     "Ꮴ", "Ꮵ", "Ꮶ", "Ꮷ", "Ꮸ", "Ꮹ", "Ꮺ", "Ꮻ", "Ꮼ", "Ꮽ", "Ꮾ", "Ꮿ", "Ᏸ", "Ᏹ", "Ᏺ",
     "Ᏻ", "Ᏼ", "Ᏽ", "Ა", "Ბ", "Გ", "Დ", "Ე", "Ვ", "Ზ", "Თ", "Ი", "Კ", "Ლ", "Მ",
     "Ნ", "Ო", "Პ", "Ჟ", "Რ", "Ს", "Ტ", "Უ", "Ფ", "Ქ", "Ღ", "Ყ", "Შ", "Ჩ", "Ც",
     "Ძ", "Წ", "Ჭ", "Ხ", "Ჯ", "Ჰ", "Ჱ", "Ჲ", "Ჳ", "Ჴ", "Ჵ", "Ჶ", "Ჷ", "Ჸ", "Ჹ",
     "Ჺ", "Ჽ", "Ჾ", "Ჿ", "U+1E00", "U+1E02", "U+1E04", "U+1E06", "U+1E08",
     "U+1E0A", "U+1E0C", "U+1E0E", "U+1E10", "U+1E12", "U+1E14", "U+1E16",
     "U+1E18", "U+1E1A", "U+1E1C", "U+1E1E", "U+1E20", "U+1E22", "U+1E24",
     "U+1E26", "U+1E28", "U+1E2A", "U+1E2C", "U+1E2E", "U+1E30", "U+1E32",
     "U+1E34", "U+1E36", "U+1E38", "U+1E3A", "U+1E3C", "U+1E3E", "U+1E40",
     "U+1E42", "U+1E44", "U+1E46", "U+1E48", "U+1E4A", "U+1E4C", "U+1E4E",
     "U+1E50", "U+1E52", "U+1E54", "U+1E56", "U+1E58", "U+1E5A", "U+1E5C",
     "U+1E5E", "U+1E60", "U+1E62", "U+1E64", "U+1E66", "U+1E68", "U+1E6A",
     "U+1E6C", "U+1E6E", "U+1E70", "U+1E72", "U+1E74", "U+1E76", "U+1E78",
     "U+1E7A", "U+1E7C", "U+1E7E", "Ẁ", "Ẃ", "Ẅ", "Ẇ", "Ẉ", "Ẋ", "Ẍ", "Ẏ", "Ẑ",
     "Ẓ", "Ẕ", "ẞ", "Ạ", "Ả", "Ấ", "Ầ", "Ẩ", "Ẫ", "Ậ", "Ắ", "Ằ", "Ẳ", "Ẵ", "Ặ",
     "Ẹ", "Ẻ", "Ẽ", "Ế", "Ề", "Ể", "Ễ", "Ệ", "Ỉ", "Ị", "Ọ", "Ỏ", "Ố", "Ồ", "Ổ",
     "Ỗ", "Ộ", "Ớ", "Ờ", "Ở", "Ỡ", "Ợ", "Ụ", "Ủ", "Ứ", "Ừ", "Ử", "Ữ", "Ự", "Ỳ",
     "Ỵ", "Ỷ", "Ỹ", "Ỻ", "Ỽ", "Ỿ", "U+1F08", "U+1F09", "U+1F0A", "U+1F0B",
     "U+1F0C", "U+1F0D", "U+1F0E", "U+1F0F", "U+1F18", "U+1F19", "U+1F1A",
     "U+1F1B", "U+1F1C", "U+1F1D", "U+1F28", "U+1F29", "U+1F2A", "U+1F2B",
     "U+1F2C", "U+1F2D", "U+1F2E", "U+1F2F", "U+1F38", "U+1F39", "U+1F3A",
     "U+1F3B", "U+1F3C", "U+1F3D", "U+1F3E", "U+1F3F", "U+1F48", "U+1F49",
     "U+1F4A", "U+1F4B", "U+1F4C", "U+1F4D", "U+1F59", "U+1F5B", "U+1F5D",
     "U+1F5F", "U+1F68", "U+1F69", "U+1F6A", "U+1F6B", "U+1F6C", "U+1F6D",
     "U+1F6E", "U+1F6F", "Ᾰ", "Ᾱ", "Ὰ", "Ά", "Ὲ", "Έ", "Ὴ", "Ή", "Ῐ", "Ῑ", "Ὶ",
     "Ί", "Ῠ", "Ῡ", "Ὺ", "Ύ", "Ῥ", "Ὸ", "Ό", "Ὼ", "Ώ", "U+2102", "U+2107",
     "U+210B", "U+210C", "U+210D", "U+2110", "U+2111", "U+2112", "U+2115",
     "U+2119", "U+211A", "U+211B", "U+211C", "U+211D", "U+2124", "U+2126",
     "U+2128", "U+212A", "U+212B", "U+212C", "U+212D", "U+2130", "U+2131",
     "U+2132", "U+2133", "U+213E", "U+213F", "U+2145", "Ↄ", "U+2C00", "U+2C01",
     "U+2C02", "U+2C03", "U+2C04", "U+2C05", "U+2C06", "U+2C07", "U+2C08",
     "U+2C09", "U+2C0A", "U+2C0B", "U+2C0C", "U+2C0D", "U+2C0E", "U+2C0F",
     "U+2C10", "U+2C11", "U+2C12", "U+2C13", "U+2C14", "U+2C15", "U+2C16",
     "U+2C17", "U+2C18", "U+2C19", "U+2C1A", "U+2C1B", "U+2C1C", "U+2C1D",
     "U+2C1E", "U+2C1F", "U+2C20", "U+2C21", "U+2C22", "U+2C23", "U+2C24",
     "U+2C25", "U+2C26", "U+2C27", "U+2C28", "U+2C29", "U+2C2A", "U+2C2B",
     "U+2C2C", "U+2C2D", "U+2C2E", "U+2C2F", "U+2C60", "U+2C62", "U+2C63",
     "U+2C64", "U+2C67", "U+2C69", "U+2C6B", "U+2C6D", "U+2C6E", "U+2C6F",
     "U+2C70", "U+2C72", "U+2C75", "U+2C7E", "U+2C7F", "Ⲁ", "Ⲃ", "Ⲅ", "Ⲇ", "Ⲉ",
     "Ⲋ", "Ⲍ", "Ⲏ", "Ⲑ", "Ⲓ", "Ⲕ", "Ⲗ", "Ⲙ", "Ⲛ", "Ⲝ", "Ⲟ", "Ⲡ", "Ⲣ", "Ⲥ", "Ⲧ",
     "Ⲩ", "Ⲫ", "Ⲭ", "Ⲯ", "Ⲱ", "Ⲳ", "Ⲵ", "Ⲷ", "Ⲹ", "Ⲻ", "Ⲽ", "Ⲿ", "Ⳁ", "Ⳃ", "Ⳅ",
     "Ⳇ", "Ⳉ", "Ⳋ", "Ⳍ", "Ⳏ", "Ⳑ", "Ⳓ", "Ⳕ", "Ⳗ", "Ⳙ", "Ⳛ", "Ⳝ", "Ⳟ", "Ⳡ", "Ⳣ",
     "Ⳬ", "Ⳮ", "Ⳳ", "U+A640", "U+A642", "U+A644", "U+A646", "U+A648", "U+A64A",
     "U+A64C", "U+A64E", "U+A650", "U+A652", "U+A654", "U+A656", "U+A658",
     "U+A65A", "U+A65C", "U+A65E", "U+A660", "U+A662", "U+A664", "U+A666",
     "U+A668", "U+A66A", "U+A66C", "Ꚁ", "Ꚃ", "Ꚅ", "Ꚇ", "Ꚉ", "Ꚋ", "Ꚍ", "Ꚏ", "Ꚑ",
     "Ꚓ", "Ꚕ", "Ꚗ", "Ꚙ", "Ꚛ", "U+A722", "U+A724", "U+A726", "U+A728", "U+A72A",
     "U+A72C", "U+A72E", "U+A732", "U+A734", "U+A736", "U+A738", "U+A73A",
     "U+A73C", "U+A73E", "U+A740", "U+A742", "U+A744", "U+A746", "U+A748",
     "U+A74A", "U+A74C", "U+A74E", "U+A750", "U+A752", "U+A754", "U+A756",
     "U+A758", "U+A75A", "U+A75C", "U+A75E", "U+A760", "U+A762", "U+A764",
     "U+A766", "U+A768", "U+A76A", "U+A76C", "U+A76E", "U+A779", "U+A77B",
     "U+A77D", "U+A77E", "Ꞁ", "Ꞃ", "Ꞅ", "Ꞇ", "Ꞌ", "Ɥ", "Ꞑ", "Ꞓ", "Ꞗ", "Ꞙ", "Ꞛ",
     "Ꞝ", "Ꞟ", "Ꞡ", "Ꞣ", "Ꞥ", "Ꞧ", "Ꞩ", "Ɦ", "Ɜ", "Ɡ", "Ɬ", "Ɪ", "Ʞ", "Ʇ", "Ʝ",
     "Ꭓ", "Ꞵ", "Ꞷ", "Ꞹ", "Ꞻ", "Ꞽ", "Ꞿ", "Ꟁ", "Ꟃ", "Ꞔ", "Ʂ", "Ᶎ", "Ꟈ", "Ꟊ", "Ꟑ",
     "Ꟗ", "Ꟙ", "Ꟶ", "U+FF21", "U+FF22", "U+FF23", "U+FF24", "U+FF25", "U+FF26",
     "U+FF27", "U+FF28", "U+FF29", "U+FF2A", "U+FF2B", "U+FF2C", "U+FF2D",
     "U+FF2E", "U+FF2F", "U+FF30", "U+FF31", "U+FF32", "U+FF33", "U+FF34",
     "U+FF35", "U+FF36", "U+FF37", "U+FF38", "U+FF39", "U+FF3A", "U+10400",
     "U+10401", "U+10402", "U+10403", "U+10404", "U+10405", "U+10406",
     "U+10407", "U+10408", "U+10409", "U+1040A", "U+1040B", "U+1040C",
     "U+1040D", "U+1040E", "U+1040F", "U+10410", "U+10411", "U+10412",
     "U+10413", "U+10414", "U+10415", "U+10416", "U+10417", "U+10418",
     "U+10419", "U+1041A", "U+1041B", "U+1041C", "U+1041D", "U+1041E",
     "U+1041F", "U+10420", "U+10421", "U+10422", "U+10423", "U+10424",
     "U+10425", "U+10426", "U+10427", "U+104B0", "U+104B1", "U+104B2",
     "U+104B3", "U+104B4", "U+104B5", "U+104B6", "U+104B7", "U+104B8",
     "U+104B9", "U+104BA", "U+104BB", "U+104BC", "U+104BD", "U+104BE",
     "U+104BF", "U+104C0", "U+104C1", "U+104C2", "U+104C3", "U+104C4",
     "U+104C5", "U+104C6", "U+104C7", "U+104C8", "U+104C9", "U+104CA",
     "U+104CB", "U+104CC", "U+104CD", "U+104CE", "U+104CF", "U+104D0",
     "U+104D1", "U+104D2", "U+104D3", "U+10570", "U+10571", "U+10572",
     "U+10573", "U+10574", "U+10575", "U+10576", "U+10577", "U+10578",
     "U+10579", "U+1057A", "U+1057C", "U+1057D", "U+1057E", "U+1057F",
     "U+10580", "U+10581", "U+10582", "U+10583", "U+10584", "U+10585",
     "U+10586", "U+10587", "U+10588", "U+10589", "U+1058A", "U+1058C",
     "U+1058D", "U+1058E", "U+1058F", "U+10590", "U+10591", "U+10592",
     "U+10594", "U+10595", "U+10C80", "U+10C81", "U+10C82", "U+10C83",
     "U+10C84", "U+10C85", "U+10C86", "U+10C87", "U+10C88", "U+10C89",
     "U+10C8A", "U+10C8B", "U+10C8C", "U+10C8D", "U+10C8E", "U+10C8F",
     "U+10C90", "U+10C91", "U+10C92", "U+10C93", "U+10C94", "U+10C95",
     "U+10C96", "U+10C97", "U+10C98", "U+10C99", "U+10C9A", "U+10C9B",
     "U+10C9C", "U+10C9D", "U+10C9E", "U+10C9F", "U+10CA0", "U+10CA1",
     "U+10CA2", "U+10CA3", "U+10CA4", "U+10CA5", "U+10CA6", "U+10CA7",
     "U+10CA8", "U+10CA9", "U+10CAA", "U+10CAB", "U+10CAC", "U+10CAD",
     "U+10CAE", "U+10CAF", "U+10CB0", "U+10CB1", "U+10CB2", "U+118A0",
     "U+118A1", "U+118A2", "U+118A3", "U+118A4", "U+118A5", "U+118A6",
     "U+118A7", "U+118A8", "U+118A9", "U+118AA", "U+118AB", "U+118AC",
     "U+118AD", "U+118AE", "U+118AF", "U+118B0", "U+118B1", "U+118B2",
     "U+118B3", "U+118B4", "U+118B5", "U+118B6", "U+118B7", "U+118B8",
     "U+118B9", "U+118BA", "U+118BB", "U+118BC", "U+118BD", "U+118BE",
     "U+118BF", "U+16E40", "U+16E41", "U+16E42", "U+16E43", "U+16E44",
     "U+16E45", "U+16E46", "U+16E47", "U+16E48", "U+16E49", "U+16E4A",
     "U+16E4B", "U+16E4C", "U+16E4D", "U+16E4E", "U+16E4F", "U+16E50",
     "U+16E51", "U+16E52", "U+16E53", "U+16E54", "U+16E55", "U+16E56",
     "U+16E57", "U+16E58", "U+16E59", "U+16E5A", "U+16E5B", "U+16E5C",
     "U+16E5D", "U+16E5E", "U+16E5F", "U+1D400", "U+1D401", "U+1D402",
     "U+1D403", "U+1D404", "U+1D405", "U+1D406", "U+1D407", "U+1D408",
     "U+1D409", "U+1D40A", "U+1D40B", "U+1D40C", "U+1D40D", "U+1D40E",
     "U+1D40F", "U+1D410", "U+1D411", "U+1D412", "U+1D413", "U+1D414",
     "U+1D415", "U+1D416", "U+1D417", "U+1D418", "U+1D419", "U+1D434",
     "U+1D435", "U+1D436", "U+1D437", "U+1D438", "U+1D439", "U+1D43A",
     "U+1D43B", "U+1D43C", "U+1D43D", "U+1D43E", "U+1D43F", "U+1D440",
     "U+1D441", "U+1D442", "U+1D443", "U+1D444", "U+1D445", "U+1D446",
     "U+1D447", "U+1D448", "U+1D449", "U+1D44A", "U+1D44B", "U+1D44C",
     "U+1D44D", "U+1D468", "U+1D469", "U+1D46A", "U+1D46B", "U+1D46C",
     "U+1D46D", "U+1D46E", "U+1D46F", "U+1D470", "U+1D471", "U+1D472",
     "U+1D473", "U+1D474", "U+1D475", "U+1D476", "U+1D477", "U+1D478",
     "U+1D479", "U+1D47A", "U+1D47B", "U+1D47C", "U+1D47D", "U+1D47E",
     "U+1D47F", "U+1D480", "U+1D481", "U+1D49C", "U+1D49E", "U+1D49F",
     "U+1D4A2", "U+1D4A5", "U+1D4A6", "U+1D4A9", "U+1D4AA", "U+1D4AB",
     "U+1D4AC", "U+1D4AE", "U+1D4AF", "U+1D4B0", "U+1D4B1", "U+1D4B2",
     "U+1D4B3", "U+1D4B4", "U+1D4B5", "U+1D4D0", "U+1D4D1", "U+1D4D2",
     "U+1D4D3", "U+1D4D4", "U+1D4D5", "U+1D4D6", "U+1D4D7", "U+1D4D8",
     "U+1D4D9", "U+1D4DA", "U+1D4DB", "U+1D4DC", "U+1D4DD", "U+1D4DE",
     "U+1D4DF", "U+1D4E0", "U+1D4E1", "U+1D4E2", "U+1D4E3", "U+1D4E4",
     "U+1D4E5", "U+1D4E6", "U+1D4E7", "U+1D4E8", "U+1D4E9", "U+1D504",
     "U+1D505", "U+1D507", "U+1D508", "U+1D509", "U+1D50A", "U+1D50D",
     "U+1D50E", "U+1D50F", "U+1D510", "U+1D511", "U+1D512", "U+1D513",
     "U+1D514", "U+1D516", "U+1D517", "U+1D518", "U+1D519", "U+1D51A",
     "U+1D51B", "U+1D51C", "U+1D538", "U+1D539", "U+1D53B", "U+1D53C",
     "U+1D53D", "U+1D53E", "U+1D540", "U+1D541", "U+1D542", "U+1D543",
     "U+1D544", "U+1D546", "U+1D54A", "U+1D54B", "U+1D54C", "U+1D54D",
     "U+1D54E", "U+1D54F", "U+1D550", "U+1D56C", "U+1D56D", "U+1D56E",
     "U+1D56F", "U+1D570", "U+1D571", "U+1D572", "U+1D573", "U+1D574",
     "U+1D575", "U+1D576", "U+1D577", "U+1D578", "U+1D579", "U+1D57A",
     "U+1D57B", "U+1D57C", "U+1D57D", "U+1D57E", "U+1D57F", "U+1D580",
     "U+1D581", "U+1D582", "U+1D583", "U+1D584", "U+1D585", "U+1D5A0",
     "U+1D5A1", "U+1D5A2", "U+1D5A3", "U+1D5A4", "U+1D5A5", "U+1D5A6",
     "U+1D5A7", "U+1D5A8", "U+1D5A9", "U+1D5AA", "U+1D5AB", "U+1D5AC",
     "U+1D5AD", "U+1D5AE", "U+1D5AF", "U+1D5B0", "U+1D5B1", "U+1D5B2",
     "U+1D5B3", "U+1D5B4", "U+1D5B5", "U+1D5B6", "U+1D5B7", "U+1D5B8",
     "U+1D5B9", "U+1D5D4", "U+1D5D5", "U+1D5D6", "U+1D5D7", "U+1D5D8",
     "U+1D5D9", "U+1D5DA", "U+1D5DB", "U+1D5DC", "U+1D5DD", "U+1D5DE",
     "U+1D5DF", "U+1D5E0", "U+1D5E1", "U+1D5E2", "U+1D5E3", "U+1D5E4",
     "U+1D5E5", "U+1D5E6", "U+1D5E7", "U+1D5E8", "U+1D5E9", "U+1D5EA",
     "U+1D5EB", "U+1D5EC", "U+1D5ED", "U+1D608", "U+1D609", "U+1D60A",
     "U+1D60B", "U+1D60C", "U+1D60D", "U+1D60E", "U+1D60F", "U+1D610",
     "U+1D611", "U+1D612", "U+1D613", "U+1D614", "U+1D615", "U+1D616",
     "U+1D617", "U+1D618", "U+1D619", "U+1D61A", "U+1D61B", "U+1D61C",
     "U+1D61D", "U+1D61E", "U+1D61F", "U+1D620", "U+1D621", "U+1D63C",
     "U+1D63D", "U+1D63E", "U+1D63F", "U+1D640", "U+1D641", "U+1D642",
     "U+1D643", "U+1D644", "U+1D645", "U+1D646", "U+1D647", "U+1D648",
     "U+1D649", "U+1D64A", "U+1D64B", "U+1D64C", "U+1D64D", "U+1D64E",
     "U+1D64F", "U+1D650", "U+1D651", "U+1D652", "U+1D653", "U+1D654",
     "U+1D655", "U+1D670", "U+1D671", "U+1D672", "U+1D673", "U+1D674",
     "U+1D675", "U+1D676", "U+1D677", "U+1D678", "U+1D679", "U+1D67A",
     "U+1D67B", "U+1D67C", "U+1D67D", "U+1D67E", "U+1D67F", "U+1D680",
     "U+1D681", "U+1D682", "U+1D683", "U+1D684", "U+1D685", "U+1D686",
     "U+1D687", "U+1D688", "U+1D689", "U+1D6A8", "U+1D6A9", "U+1D6AA",
     "U+1D6AB", "U+1D6AC", "U+1D6AD", "U+1D6AE", "U+1D6AF", "U+1D6B0",
     "U+1D6B1", "U+1D6B2", "U+1D6B3", "U+1D6B4", "U+1D6B5", "U+1D6B6",
     "U+1D6B7", "U+1D6B8", "U+1D6B9", "U+1D6BA", "U+1D6BB", "U+1D6BC",
     "U+1D6BD", "U+1D6BE", "U+1D6BF", "U+1D6C0", "U+1D6E2", "U+1D6E3",
     "U+1D6E4", "U+1D6E5", "U+1D6E6", "U+1D6E7", "U+1D6E8", "U+1D6E9",
     "U+1D6EA", "U+1D6EB", "U+1D6EC", "U+1D6ED", "U+1D6EE", "U+1D6EF",
     "U+1D6F0", "U+1D6F1", "U+1D6F2", "U+1D6F3", "U+1D6F4", "U+1D6F5",
     "U+1D6F6", "U+1D6F7", "U+1D6F8", "U+1D6F9", "U+1D6FA", "U+1D71C",
     "U+1D71D", "U+1D71E", "U+1D71F", "U+1D720", "U+1D721", "U+1D722",
     "U+1D723", "U+1D724", "U+1D725", "U+1D726", "U+1D727", "U+1D728",
     "U+1D729", "U+1D72A", "U+1D72B", "U+1D72C", "U+1D72D", "U+1D72E",
     "U+1D72F", "U+1D730", "U+1D731", "U+1D732", "U+1D733", "U+1D734",
     "U+1D756", "U+1D757", "U+1D758", "U+1D759", "U+1D75A", "U+1D75B",
     "U+1D75C", "U+1D75D", "U+1D75E", "U+1D75F", "U+1D760", "U+1D761",
     "U+1D762", "U+1D763", "U+1D764", "U+1D765", "U+1D766", "U+1D767",
     "U+1D768", "U+1D769", "U+1D76A", "U+1D76B", "U+1D76C", "U+1D76D",
     "U+1D76E", "U+1D790", "U+1D791", "U+1D792", "U+1D793", "U+1D794",
     "U+1D795", "U+1D796", "U+1D797", "U+1D798", "U+1D799", "U+1D79A",
     "U+1D79B", "U+1D79C", "U+1D79D", "U+1D79E", "U+1D79F", "U+1D7A0",
     "U+1D7A1", "U+1D7A2", "U+1D7A3", "U+1D7A4", "U+1D7A5", "U+1D7A6",
     "U+1D7A7", "U+1D7A8", "U+1D7CA", "U+1E900", "U+1E901", "U+1E902",
     "U+1E903", "U+1E904", "U+1E905", "U+1E906", "U+1E907", "U+1E908",
     "U+1E909", "U+1E90A", "U+1E90B", "U+1E90C", "U+1E90D", "U+1E90E",
     "U+1E90F", "U+1E910", "U+1E911", "U+1E912", "U+1E913", "U+1E914",
     "U+1E915", "U+1E916", "U+1E917", "U+1E918", "U+1E919", "U+1E91A",
     "U+1E91B", "U+1E91C", "U+1E91D", "U+1E91E", "U+1E91F", "U+1E920",
     "U+1E921"}

\* the lower case of each character of UpperCase
LowerOf ==
    [ch \in {UpperCase[i] : i \in 1..Len(UpperCase)} |->
        LowerCase[CHOOSE i \in 1..Len(UpperCase) : UpperCase[i] = ch]]

ToLowerChar(ch) == IF ch \in DOMAIN LowerOf THEN LowerOf[ch] ELSE ch

\* strings.ToLower
ToLower(s) == [i \in 1..Len(s) |-> ToLowerChar(s[i])]

RECURSIVE TrimLeft(_, _)
\* strings.TrimLeft(s, cutset)
TrimLeft(s, cutset) ==
    IF Len(s) > 0 /\ Head(s) \in cutset THEN TrimLeft(Tail(s), cutset) ELSE s

RECURSIVE TrimRight(_, _)
\* strings.TrimRight(s, cutset)
TrimRight(s, cutset) ==
    IF Len(s) > 0 /\ s[Len(s)] \in cutset
    THEN TrimRight(SubSeq(s, 1, Len(s) - 1), cutset)
    ELSE s

\* strings.Trim(s, cutset): every leading and trailing character of the cutset
Trim(s, cutset) == TrimRight(TrimLeft(s, cutset), cutset)

\* strings.TrimSpace
TrimSpace(s) == Trim(s, SpaceChars)

\* strings.HasPrefix
HasPrefix(s, prefix) ==
    Len(s) >= Len(prefix) /\ SubSeq(s, 1, Len(prefix)) = prefix

\* strings.HasSuffix
HasSuffix(s, suffix) ==
    Len(s) >= Len(suffix) /\ SubSeq(s, Len(s) - Len(suffix) + 1, Len(s)) = suffix

\* strings.TrimPrefix
TrimPrefix(s, prefix) ==
    IF HasPrefix(s, prefix) THEN SubSeq(s, Len(prefix) + 1, Len(s)) ELSE s

RECURSIVE Split(_, _)
\* strings.Split(s, sep), for a separator of one character
Split(s, sep) ==
    IF \A i \in 1..Len(s) : s[i] # sep
    THEN <<s>>
    ELSE LET i == CHOOSE k \in 1..Len(s) :
                      s[k] = sep /\ \A j \in 1..(k - 1) : s[j] # sep
         IN  <<SubSeq(s, 1, i - 1)>> \o Split(SubSeq(s, i + 1, Len(s)), sep)

RECURSIVE Join(_, _)
\* strings.Join(elems, sep), for a separator of one character
Join(elems, sep) ==
    IF Len(elems) = 0 THEN <<>>
    ELSE IF Len(elems) = 1 THEN elems[1]
    ELSE elems[1] \o <<sep>> \o Join(Tail(elems), sep)

(***************************************************************************)
(* LyricsService.parseLyrics and LyricsService.countWords.                 *)
(***************************************************************************)
BracketChars == {"[", "]"}
TitlePrefix == <<"t", "i", "t", "l", "e", ":">>
DefaultTitle == <<"U", "n", "t", "i", "t", "l", "e", "d", " ", "S", "o", "n", "g">>
DefaultKey == <<"v", "e", "r", "s", "e", "1">>
NoSection == <<>>
EmptyMap == [k \in {} |-> <<>>]

\* structure[key] = value on a Go map
MapPut(m, key, value) ==
    [k \in (DOMAIN m) \cup {key} |-> IF k = key THEN value ELSE m[k]]

\* the loop's test of a trimmed line: a section header
IsHeaderLine(line) == HasPrefix(line, <<"[">>) /\ HasSuffix(line, <<"]">>)

\* sectionName := strings.ToLower(strings.Trim(line, "[]"))
SectionName(line) == ToLower(Trim(line, BracketChars))

\* SaveSection that also stores a section without content lines
SaveSectionAlways(structure, currentSection, currentContent) ==
    IF currentSection # NoSection
    THEN MapPut(structure, currentSection, Join(currentContent, NL))
    ELSE structure

\* SaveSection that appends to the content already stored under the name
SaveSectionAppend(structure, currentSection, currentContent) ==
    IF currentSection # NoSection /\ Len(currentContent) > 0
    THEN IF currentSection \in DOMAIN structure
         THEN MapPut(structure, currentSection,
                     structure[currentSection] \o <<NL>> \o Join(currentContent, NL))
         ELSE MapPut(structure, currentSection, Join(currentContent, NL))
    ELSE structure

\* "Save previous section" and "Save last section"
SaveSection(structure, currentSection, currentContent) ==
    IF currentSection # NoSection /\ Len(currentContent) > 0
    THEN MapPut(structure, currentSection, Join(currentContent, NL))
    ELSE structure

\* the title a title header sets
TitleOf(sectionName) == TrimSpace(TrimPrefix(sectionName, TitlePrefix))

\* one iteration of the loop over the lines
ParseLine(st, rawLine) ==
    LET line == TrimSpace(rawLine) IN
    IF line = <<>> THEN st
    ELSE IF IsHeaderLine(line)
    THEN LET saved == SaveSection(st.structure, st.currentSection, st.currentContent)
             sectionName == SectionName(line)
         IN  IF HasPrefix(sectionName, TitlePrefix)
             THEN [st EXCEPT !.structure = saved,
                             !.title = TitleOf(sectionName),
                             !.currentSection = NoSection]
             ELSE [st EXCEPT !.structure = saved,
                             !.currentSection = sectionName,
                             !.currentContent = <<>>]
    ELSE IF st.currentSection # NoSection
    THEN [st EXCEPT !.currentContent = Append(@, line)]
    ELSE st

RECURSIVE ParseLoop(_, _)
ParseLoop(st, lines) ==
    IF Len(lines) = 0 THEN st ELSE ParseLoop(ParseLine(st, Head(lines)), Tail(lines))

\* the loop's state before the first line
ParseStart ==
    [structure |-> EmptyMap, title |-> DefaultTitle,
     currentSection |-> NoSection, currentContent |-> <<>>]

\* the sections found by the loop and the save of the last section
ParsedSections(input) ==
    LET st == ParseLoop(ParseStart, Split(input, NL))
    IN  SaveSection(st.structure, st.currentSection, st.currentContent)

\* FallbackStructure that stores the text without its header lines
FallbackStructureHeaderless(structure, input) ==
    IF DOMAIN structure = {}
    THEN MapPut(structure, DefaultKey,
                Join(SelectSeq(Split(input, NL),
                               LAMBDA l : ~IsHeaderLine(TrimSpace(l))), NL))
    ELSE structure

\* FallbackStructure that stores the text trimmed
FallbackStructureTrimmed(structure, input) ==
    IF DOMAIN structure = {} THEN MapPut(structure, DefaultKey, TrimSpace(input))
    ELSE structure

\* "If no structured content found, use the whole text"
FallbackStructure(structure, input) ==
    IF DOMAIN structure = {} THEN MapPut(structure, DefaultKey, input) ELSE structure

parseLyrics(input) ==
    [title |-> ParseLoop(ParseStart, Split(input, NL)).title,
     structure |-> FallbackStructure(ParsedSections(input), input)]

RECURSIVE FieldsFrom(_, _, _)
\* the scan of strings.Fields: cur is the field being read, out the fields read
FieldsFrom(s, cur, out) ==
    IF Len(s) = 0
    THEN IF Len(cur) > 0 THEN Append(out, cur) ELSE out
    ELSE IF IsSpace(Head(s))
    THEN FieldsFrom(Tail(s), <<>>, IF Len(cur) > 0 THEN Append(out, cur) ELSE out)
    ELSE FieldsFrom(Tail(s), Append(cur, Head(s)), out)

\* Fields as strings.Split(s, " ") without its empty pieces
FieldsOnBlanks(s) == SelectSeq(Split(s, " "), LAMBDA piece : Len(piece) > 0)

\* strings.Fields
Fields(s) == FieldsFrom(s, <<>>, <<>>)

countWords(input) == Len(Fields(input))

(***************************************************************************)
(* The texts of the model: every text of 1..MaxLines lines drawn from      *)
(* SampleLines, every text of at most MaxWordLen characters of WordChars,  *)
(* and the texts of ExampleTexts.                                          *)
(***************************************************************************)
SampleLines == <<
    <<" ", "\t">>,
    <<"[", "T", "i", "t", "l", "e", ":", " ", "L", "o", "v", "e", " ", "S", "o", "n", "g", "]">>,
    <<"[", "V", "e", "r", "s", "e", " ", "1", "]">>,
    <<"[", "V", "E", "R", "S", "E", " ", "1", "]">>,
    <<" ", "[", " ", "C", "h", "o", "r", "u", "s", " ", "]", " ">>,
    <<"[", "]">>,
    <<"l", "i", "n", "e", " ", "a">>,
    <<" ", " ", "L", "i", "n", "e", " ", "B", "\r">>,
    <<"[", "x">>
>>

\* a header directly followed by another header
HeaderPairText ==
    <<"[", "V", "e", "r", "s", "e", " ", "1", "]", "\n",
      "[", "C", "h", "o", "r", "u", "s", "]", "\n", "t", "e", "x", "t">>

\* a header between vertical tabs, and a content line that ends with a
\* no-break space
OtherSpaceText ==
    <<"", "[", "V", "e", "r", "s", "e", " ", "1", "]", "", "\n",
      "l", "i", "n", "e", " ">>

\* a header whose name has capitals outside ASCII
AccentText == <<"[", "É", "T", "É", "]", "\n", "l", "a">>

\* a header whose name has capitals of three alphabets, the capital sharp s
\* and a capital that has no small letter (U+03D2)
AlphabetsText == <<"[", "Ω", "Ґ", "ẞ", "Z", "ϒ", "]", "\n", "l", "a">>

\* the default key as the name of two headers without content
EmptyPairText ==
    <<"[", "v", "e", "r", "s", "e", "1", "]", "\n",
      "[", "V", "E", "R", "S", "E", "1", "]">>

\* one section name written with and without blanks inside the brackets
SpacedNameText ==
    <<"[", " ", "V", "e", "r", "s", "e", " ", "1", " ", "]", "\n",
      "l", "i", "n", "e", " ", "a", "\n",
      "[", "V", "E", "R", "S", "E", " ", "1", "]", "\n",
      "l", "i", "n", "e", " ", "b">>

\* the text of spec section 8 (TestParseLyrics has its shape), and texts with a
\* second title header, nested brackets and a blank inside the brackets
ExampleTexts == {
    AccentText,
    AlphabetsText,
    EmptyPairText,
    HeaderPairText,
    OtherSpaceText,
    SpacedNameText,
    <<"[", "T", "i", "t", "l", "e", ":", " ", "L", "o", "v", "e", " ", "S",
      "o", "n", "g", "]", "\n", "[", "V", "e", "r", "s", "e", " ", "1", "]",
      "\n", "l", "i", "n", "e", " ", "a", "\n", "l", "i", "n", "e", " ", "b",
      "\n", "[", "C", "h", "o", "r", "u", "s", "]", "\n", "l", "i", "n", "e",
      " ", "c">>,
    <<"[", "T", "I", "T", "L", "E", ":", " ", " ", "B", " ", "S", "i", "d",
      "e", " ", "]", "\n", "[", "[", "B", "r", "i", "d", "g", "e", "]", "]",
      "\n", "l", "a", " ", "l", "a", "\n", "\n", "[", "V", "e", "r", "s",
      "e", " ", "1", "]">>,
    <<"[", " ", "t", "i", "t", "l", "e", ":", "x", "]", "\n", "l", "i", "n",
      "e", " ", "a", "\n", "[", "T", "i", "t", "l", "e", ":", " ", "L", "o",
      "v", "e", " ", "S", "o", "n", "g", "]", "\n", "l", "i", "n", "e", " ",
      "b">>
}

WordChars == {"a", ",", " ", "\t", "\n", ""}

LineTexts ==
    UNION {{Join([i \in 1..n |-> SampleLines[f[i]]], NL) :
                f \in [1..n -> 1..Len(SampleLines)]} : n \in 1..MaxLines}

WordTexts == UNION {[1..n -> WordChars] : n \in 0..MaxWordLen}

Texts == LineTexts \cup WordTexts \cup ExampleTexts

NoLyrics == [title |-> <<>>, structure |-> EmptyMap]

(***************************************************************************)
(* The text functions as a state machine: GenerateLyrics hands the text    *)
(* of the completion to parseLyrics and to countWords.                     *)
(***************************************************************************)
TextIdle ==
    /\ text = <<>>
    /\ lyrics = NoLyrics
    /\ wordCount = 0
    /\ applied = {}

\* lyrics := s.parseLyrics(generatedText, req)
ParseLyrics ==
    /\ "parseLyrics" \notin applied
    /\ lyrics' = parseLyrics(text)
    /\ applied' = applied \cup {"parseLyrics"}
    /\ UNCHANGED <<text, wordCount>>

\* wordCount := s.countWords(generatedText)
CountWords ==
    /\ "parseLyrics" \in applied
    /\ "countWords" \notin applied
    /\ wordCount' = countWords(text)
    /\ applied' = applied \cup {"countWords"}
    /\ UNCHANGED <<text, lyrics>>

(***************************************************************************)
(* Integers of Go.  An int and a time.Duration have 64 bits, and a         *)
(* time.Time counts nanoseconds without a limit that the service reaches.  *)
(* Such an integer is a sequence of digits of base LimbBase in two's       *)
(* complement, the lowest digit first: an int or a Duration in Int64Limbs  *)
(* digits, so that its arithmetic wraps around as Go's does, and a time in *)
(* TimeLimbs digits, which hold every product of an int and the            *)
(* nanoseconds of a second.  An operator that reads the digits of an       *)
(* operand takes the operand as a value first (w and x below).             *)
(***************************************************************************)
LimbBase == 65536
Int64Limbs == 4
TimeLimbs == 6

\* an integer n, -2^31 < n < 2^31, in w digits
Limbs(n, w) ==
    LET m == IF n >= 0 THEN n ELSE -n - 1
        digit(i) == IF i = 1 THEN m % LimbBase
                    ELSE IF i = 2 THEN m \div LimbBase
                    ELSE 0
    IN  [i \in 1..w |-> IF n >= 0 THEN digit(i) ELSE LimbBase - 1 - digit(i)]

Int64(n) == Limbs(n, Int64Limbs)

IsNegative(v) == v[Len(v)] >= LimbBase \div 2
IsZero(v) == \A i \in 1..Len(v) : v[i] = 0

\* v * k in the digits of v, for 0 <= k <= 1000: what the digits of v do
\* not hold is dropped
RECURSIVE TimesFrom(_, _, _, _)
TimesFrom(v, k, i, carry) ==
    IF i > Len(v) THEN <<>>
    ELSE LET p == v[i] * k + carry
         IN  <<p % LimbBase>> \o TimesFrom(v, k, i + 1, p \div LimbBase)

Times(v, k) == CHOOSE r \in {TimesFrom(w, k, 1, 0) : w \in {v}} : TRUE

\* v + u in the digits of v, for v and u of one length
RECURSIVE PlusFrom(_, _, _, _)
PlusFrom(v, u, i, carry) ==
    IF i > Len(v) THEN <<>>
    ELSE LET p == v[i] + u[i] + carry
         IN  <<p % LimbBase>> \o PlusFrom(v, u, i + 1, p \div LimbBase)

Plus(v, u) ==
    CHOOSE r \in {PlusFrom(w, x, 1, 0) : w \in {v}, x \in {u}} : TRUE

\* v in w digits, w >= Len(v)
Widen(v, n) ==
    CHOOSE r \in {[i \in 1..n |-> IF i <= Len(w) THEN w[i]
                                   ELSE IF IsNegative(w) THEN LimbBase - 1 ELSE 0] :
                    w \in {v}} : TRUE

\* v < u, for v and u of one length
RECURSIVE LessFrom(_, _, _)
LessFrom(v, u, i) ==
    IF i = 0 THEN FALSE
    ELSE IF v[i] # u[i] THEN v[i] < u[i]
    ELSE LessFrom(v, u, i - 1)

Less(v, u) ==
    \E w \in {v}, x \in {u} :
        IF IsNegative(w) # IsNegative(x) THEN IsNegative(w)
        ELSE LessFrom(w, x, Len(w))

\* the int that a JSON number of the decimal digits ds gives
RECURSIVE Decimal(_)
Decimal(ds) ==
    IF ds = <<>> THEN Int64(0)
    ELSE Plus(Times(Decimal(SubSeq(ds, 1, Len(ds) - 1)), 10), Int64(ds[Len(ds)]))

\* the largest and the smallest int
MaxInt64 == [i \in 1..Int64Limbs |-> IF i = Int64Limbs THEN LimbBase \div 2 - 1 ELSE LimbBase - 1]
MinInt64 == [i \in 1..Int64Limbs |-> IF i = Int64Limbs THEN LimbBase \div 2 ELSE 0]

\* time.Duration(n) * time.Second, the product of two int64: the
\* nanoseconds of n seconds, wrapped around 64 bits
Duration(n) == Times(Times(Times(n, 1000), 1000), 1000)

\* the time of the clock at its second t
Instant(t) == Times(Times(Times(Limbs(t, TimeLimbs), 1000), 1000), 1000)

\* Time.Add
Add(t, d) == Plus(t, Widen(d, TimeLimbs))

\* Time.Before
Before(t, u) == Less(t, u)

(***************************************************************************)
(* OAuthClient: the token cache.                                           *)
(***************************************************************************)
NoToken == ""

\* What the token endpoint can answer to one exchange.  net: "doErr" when
\* httpClient.Do fails (no connection, the 30 s client timeout, a cancelled
\* context), "readErr" when reading the body fails, else "ok"; json: whether
\* the body unmarshals into OAuthTokenResponse; then the fields of the body.
\* expires_in is an int: a body whose number is no int64 does not unmarshal.
Statuses == {200, 401}
OAuthErrors == {"", "invalid_client"}
TokenValues == {"", "t1", "t2"}

\* the largest expires_in whose nanoseconds are an int64, the value after
\* it, whose nanoseconds wrap around to a negative Duration, and
\* 2^55 + 31, whose nanoseconds wrap around to those of 31 seconds
LongestExpiresIn == Decimal(<<9, 2, 2, 3, 3, 7, 2, 0, 3, 6>>)
WrappedExpiresIn == Decimal(<<9, 2, 2, 3, 3, 7, 2, 0, 3, 7>>)
RewrappedExpiresIn == Decimal(<<3, 6, 0, 2, 8, 7, 9, 7, 0, 1, 8, 9, 6, 3, 9, 9, 9>>)

ExpiresInValues ==
    {Int64(e) : e \in {-5, 0, 1, 30, 31, 3599, 3600, 3601}}
    \cup {MinInt64, LongestExpiresIn, WrappedExpiresIn, RewrappedExpiresIn, MaxInt64}

Response(net, json, status, error, token, expiresIn) ==
    [net |-> net, json |-> json, status |-> status, error |-> error,
     access_token |-> token, expires_in |-> expiresIn]

NoResponse == Response("none", FALSE, 0, "", "", Int64(0))

Responses ==
    {Response("doErr", FALSE, 0, "", "", Int64(0))}
    \cup {Response("readErr", FALSE, st, "", "", Int64(0)) : st \in Statuses}
    \cup {Response("ok", FALSE, st, "", "", Int64(0)) : st \in Statuses}
    \cup {Response("ok", TRUE, st, er, tk, e) :
            st \in Statuses, er \in OAuthErrors, tk \in TokenValues,
            e \in ExpiresInValues}

\* The answers tried against concurrent callers: one of each kind of failure,
\* and good tokens that last the default hour (expires_in 0), 30 s, 31 s and
\* 3600 s, or whose lifetime wraps around.
SampleResponses ==
    {Response("doErr", FALSE, 0, "", "", Int64(0)),
     Response("readErr", FALSE, 200, "", "", Int64(0)),
     Response("ok", FALSE, 200, "", "", Int64(0)),
     Response("ok", TRUE, 401, "invalid_client", "", Int64(0)),
     Response("ok", TRUE, 401, "", "t1", Int64(3600)),
     Response("ok", TRUE, 200, "", "", Int64(3600))}
    \cup {Response("ok", TRUE, 200, "", tk, Int64(e)) :
            tk \in {"t1", "t2"}, e \in {0, 30, 31, 3600}}
    \cup {Response("ok", TRUE, 200, "", "t1", e) :
            e \in {WrappedExpiresIn, RewrappedExpiresIn}}

\* HasValidToken with Before replaced by "not After": a token exactly 30 s
\* from its expiry passes
HasValidTokenNotAfter(token, expiry, t) ==
    token # NoToken /\ ~Before(expiry, Add(Instant(t), Duration(Int64(BufferSeconds))))

\* HasValidToken without the 30 s buffer
HasValidTokenNoBuffer(token, expiry, t) ==
    token # NoToken /\ Before(Instant(t), expiry)

\* o.accessToken != "" && time.Now().Add(30*time.Second).Before(o.expiresAt)
HasValidToken(token, expiry, t) ==
    token # NoToken /\ Before(Add(Instant(t), Duration(Int64(BufferSeconds))), expiry)

\* the check of GetAccessToken under the read lock
FastPathValid == HasValidToken(accessToken, expiresAt, now)

\* GetAccessToken without its double-check
DoubleCheckSkipped == FALSE

\* the double-check of GetAccessToken under the write lock
DoubleCheckValid == HasValidToken(accessToken, expiresAt, now)

\* EffectiveExpiresIn with the default applied to negative values only
EffectiveExpiresInNegativeOnly(e) ==
    IF IsNegative(e) THEN Int64(DefaultExpiresIn) ELSE e

\* expiresIn := tokenResp.ExpiresIn; if expiresIn <= 0 { expiresIn = 3600 }
EffectiveExpiresIn(e) ==
    IF IsNegative(e) \/ IsZero(e) THEN Int64(DefaultExpiresIn) ELSE e

\* ExchangeOutcome without the check of the HTTP status
ExchangeOutcomeAnyStatus(resp) ==
    IF resp.net = "doErr" THEN "request_failed"
    ELSE IF resp.net = "readErr" THEN "read_failed"
    ELSE IF ~resp.json THEN "parse_failed"
    ELSE IF resp.error # "" THEN "oauth_error"
    ELSE IF resp.access_token = NoToken THEN "empty_token"
    ELSE "ok"

\* the returns of requestNewToken after the request is built, in order
ExchangeOutcome(resp) ==
    IF resp.net = "doErr" THEN "request_failed"
    ELSE IF resp.net = "readErr" THEN "read_failed"
    ELSE IF ~resp.json THEN "parse_failed"
    ELSE IF resp.error # "" THEN "oauth_error"
    ELSE IF resp.status # StatusOK THEN "bad_status"
    ELSE IF resp.access_token = NoToken THEN "empty_token"
    ELSE "ok"

\* sync.RWMutex: RLock is granted while no writer holds the lock.  (Go also
\* holds back new readers while a writer waits; the model allows them, which
\* only adds interleavings.)
CanRLock == writer = NoOne

\* a Lock that waits for the readers only
CanLockBesideWriter == readers = 0

\* sync.RWMutex: Lock is granted while nobody holds the lock
CanLock == writer = NoOne /\ readers = 0

\* what a call returns, with the facts of the call: the path it took, the
\* time and the expiry at its return, the cache it saw at its last check,
\* whether it called requestNewToken (requested) and whether that sent the
\* token request (started), and the answer to that request
NoResult ==
    [kind |-> "none", token |-> NoToken, err |-> "", path |-> "none",
     at |-> 0, exp |-> Instant(0), seenToken |-> NoToken, seenExp |-> Instant(0),
     seenAt |-> 0, requested |-> 0, started |-> 0, resp |-> NoResponse]

InCall(c) == pc[c] \in {"wantlock", "wlocked", "inflight"}

OAuthIdle ==
    /\ now = 0
    /\ accessToken = NoToken
    /\ expiresAt = Instant(0)
    /\ readers = 0
    /\ writer = NoOne
    /\ pc = [c \in Callers |-> "idle"]
    /\ result = [c \in Callers |-> NoResult]
    /\ calls = 0
    /\ exchanges = 0
    /\ lastExchange = "none"
    /\ cohort = {}
    /\ cohortSent = 0

\* GetAccessToken: o.mutex.RLock()
RLock(c) ==
    /\ pc[c] = "idle"
    /\ CanRLock
    /\ readers' = readers + 1
    /\ pc' = [pc EXCEPT ![c] = "rlocked"]
    /\ calls' = calls + 1
    /\ UNCHANGED <<now, tokenEndpointOK, accessToken, expiresAt, writer, result,
                   exchanges, lastExchange, cohort, cohortSent>>

\* GetAccessToken: the check under the read lock, RUnlock, and the return
\* of the cached token when it is valid
ReadCheck(c) ==
    /\ pc[c] = "rlocked"
    /\ readers' = readers - 1
    /\ IF FastPathValid
       THEN /\ pc' = [pc EXCEPT ![c] = "done"]
            /\ result' = [result EXCEPT ![c] =
                 [NoResult EXCEPT !.kind = "token", !.token = accessToken,
                                  !.path = "fast", !.at = now, !.exp = expiresAt,
                                  !.seenToken = accessToken, !.seenExp = expiresAt,
                                  !.seenAt = now]]
            /\ UNCHANGED <<cohort, cohortSent>>
       ELSE /\ pc' = [pc EXCEPT ![c] = "wantlock"]
            /\ result' = [result EXCEPT ![c] = NoResult]
            /\ IF \E m \in cohort : InCall(m)
               THEN /\ cohort' = cohort \cup {c}
                    /\ UNCHANGED cohortSent
               ELSE /\ cohort' = {c}
                    /\ cohortSent' = 0
    /\ UNCHANGED <<now, tokenEndpointOK, accessToken, expiresAt, writer, calls,
                   exchanges, lastExchange>>

\* GetAccessToken: o.mutex.Lock()
Lock(c) ==
    /\ pc[c] = "wantlock"
    /\ CanLock
    /\ writer' = c
    /\ pc' = [pc EXCEPT ![c] = "wlocked"]
    /\ UNCHANGED <<now, tokenEndpointOK, accessToken, expiresAt, readers, result,
                   calls, exchanges, lastExchange, cohort, cohortSent>>

\* GetAccessToken: the double-check under the write lock.  A valid token is
\* returned (the deferred Unlock runs); otherwise requestNewToken is called:
\* it builds the token request and sends it, or, where no request can be
\* built from o.tokenEndpoint, returns its error, and nothing is sent.
DoubleCheck(c) ==
    /\ pc[c] = "wlocked"
    /\ IF DoubleCheckValid
       THEN /\ pc' = [pc EXCEPT ![c] = "done"]
            /\ writer' = NoOne
            /\ result' = [result EXCEPT ![c] =
                 [NoResult EXCEPT !.kind = "token", !.token = accessToken,
                                  !.path = "dc", !.at = now, !.exp = expiresAt,
                                  !.seenToken = accessToken, !.seenExp = expiresAt,
                                  !.seenAt = now]]
            /\ UNCHANGED <<exchanges, cohortSent, lastExchange>>
       ELSE IF tokenEndpointOK
       THEN /\ pc' = [pc EXCEPT ![c] = "inflight"]
            /\ exchanges' = exchanges + 1
            /\ cohortSent' = cohortSent + 1
            /\ result' = [result EXCEPT ![c] =
                 [NoResult EXCEPT !.seenToken = accessToken,
                                  !.seenExp = expiresAt, !.seenAt = now,
                                  !.requested = 1, !.started = 1]]
            /\ UNCHANGED <<writer, lastExchange>>
       ELSE /\ pc' = [pc EXCEPT ![c] = "done"]
            /\ writer' = NoOne
            /\ result' = [result EXCEPT ![c] =
                 [NoResult EXCEPT !.kind = "error", !.err = "create_failed",
                                  !.at = now, !.exp = expiresAt,
                                  !.seenToken = accessToken,
                                  !.seenExp = expiresAt, !.seenAt = now,
                                  !.requested = 1]]
            /\ UNCHANGED <<exchanges, cohortSent, lastExchange>>
    /\ UNCHANGED <<now, tokenEndpointOK, accessToken, expiresAt, readers, calls,
                   cohort>>

\* AfterExchange that tries the exchange again after a failure
AfterExchangeRetry(outcome) == IF outcome = "ok" THEN "done" ELSE "wlocked"

\* requestNewToken returns after one answer, whatever it is, and
\* GetAccessToken returns what it returned
AfterExchange(outcome) == "done"

\* ExchangeComplete that answers a failed exchange with the cached token as
\* long as that token has not expired
ExchangeCompleteStaleFallback(c, resp) ==
    /\ pc[c] = "inflight"
    /\ pc' = [pc EXCEPT ![c] = "done"]
    /\ writer' = NoOne
    /\ IF ExchangeOutcome(resp) = "ok"
       THEN /\ accessToken' = resp.access_token
            /\ expiresAt' = Add(Instant(now),
                              Duration(EffectiveExpiresIn(resp.expires_in)))
            /\ result' = [result EXCEPT ![c] =
                 [@ EXCEPT !.kind = "token", !.token = accessToken',
                           !.path = "fresh", !.at = now, !.exp = expiresAt',
                           !.resp = resp]]
            /\ lastExchange' = "ok"
       ELSE /\ result' = [result EXCEPT ![c] =
                 IF accessToken # NoToken /\ Before(Instant(now), expiresAt)
                 THEN [@ EXCEPT !.kind = "token", !.token = accessToken,
                                !.path = "fresh", !.at = now, !.exp = expiresAt,
                                !.resp = resp]
                 ELSE [@ EXCEPT !.kind = "error", !.err = ExchangeOutcome(resp),
                                !.at = now, !.exp = expiresAt, !.resp = resp]]
            /\ lastExchange' = "fail"
            /\ UNCHANGED <<accessToken, expiresAt>>
    /\ UNCHANGED <<now, tokenEndpointOK, readers, calls, exchanges, cohort,
                   cohortSent>>

\* ExchangeComplete without the deferred Unlock when the exchange failed
ExchangeCompleteKeepsLock(c, resp) ==
    /\ pc[c] = "inflight"
    /\ pc' = [pc EXCEPT ![c] = "done"]
    /\ writer' = IF ExchangeOutcome(resp) = "ok" THEN NoOne ELSE writer
    /\ IF ExchangeOutcome(resp) = "ok"
       THEN /\ accessToken' = resp.access_token
            /\ expiresAt' = Add(Instant(now),
                              Duration(EffectiveExpiresIn(resp.expires_in)))
            /\ result' = [result EXCEPT ![c] =
                 [@ EXCEPT !.kind = "token", !.token = accessToken',
                           !.path = "fresh", !.at = now, !.exp = expiresAt',
                           !.resp = resp]]
            /\ lastExchange' = "ok"
       ELSE /\ result' = [result EXCEPT ![c] =
                 [@ EXCEPT !.kind = "error", !.err = ExchangeOutcome(resp),
                           !.at = now, !.exp = expiresAt, !.resp = resp]]
            /\ lastExchange' = "fail"
            /\ UNCHANGED <<accessToken, expiresAt>>
    /\ UNCHANGED <<now, tokenEndpointOK, readers, calls, exchanges, cohort,
                   cohortSent>>

\* requestNewToken from httpClient.Do on: the answer of the token endpoint is
\* checked, a good token is stored with its expiry and returned, and the
\* deferred Unlock of GetAccessToken runs
ExchangeComplete(c, resp) ==
    /\ pc[c] = "inflight"
    /\ pc' = [pc EXCEPT ![c] = AfterExchange(ExchangeOutcome(resp))]
    /\ writer' = NoOne
    /\ IF ExchangeOutcome(resp) = "ok"
       THEN /\ accessToken' = resp.access_token
            /\ expiresAt' = Add(Instant(now),
                              Duration(EffectiveExpiresIn(resp.expires_in)))
            /\ result' = [result EXCEPT ![c] =
                 [@ EXCEPT !.kind = "token", !.token = accessToken',
                           !.path = "fresh", !.at = now, !.exp = expiresAt',
                           !.resp = resp]]
            /\ lastExchange' = "ok"
       ELSE /\ result' = [result EXCEPT ![c] =
                 [@ EXCEPT !.kind = "error", !.err = ExchangeOutcome(resp),
                           !.at = now, !.exp = expiresAt, !.resp = resp]]
            /\ lastExchange' = "fail"
            /\ UNCHANGED <<accessToken, expiresAt>>
    /\ UNCHANGED <<now, tokenEndpointOK, readers, calls, exchanges, cohort,
                   cohortSent>>

\* the caller takes the return value and may call again
Return(c) ==
    /\ pc[c] = "done"
    /\ pc' = [pc EXCEPT ![c] = "idle"]
    /\ result' = [result EXCEPT ![c] = NoResult]
    /\ UNCHANGED <<now, tokenEndpointOK, accessToken, expiresAt, readers, writer,
                   calls, exchanges, lastExchange, cohort, cohortSent>>

\* a second passes
Tick ==
    /\ now < MaxClock
    /\ now' = now + 1
    /\ UNCHANGED <<tokenEndpointOK, accessToken, expiresAt, readers, writer, pc,
                   result, calls, exchanges, lastExchange, cohort, cohortSent>>

(***************************************************************************)
(* The generateLyrics handler: binding and validation of a LyricsRequest.  *)
(***************************************************************************)
StatusBadRequest == 400
StatusInternalServerError == 500
MinKeywords == 1
MaxKeywords == 10
MinVerses == 1
MaxVerses == 4
DefaultVerses == 2

\* the keys of ValidGenres, ValidEmotions and ValidLanguages
GenreKeys == <<
    <<"p", "o", "p">>,
    <<"r", "o", "c", "k">>,
    <<"c", "o", "u", "n", "t", "r", "y">>,
    <<"h", "i", "p", "-", "h", "o", "p">>,
    <<"r", "&", "b">>,
    <<"j", "a", "z", "z">>,
    <<"f", "o", "l", "k">>,
    <<"e", "l", "e", "c", "t", "r", "o", "n", "i", "c">>,
    <<"c", "l", "a", "s", "s", "i", "c", "a", "l">>,
    <<"r", "e", "g", "g", "a", "e">>,
    <<"b", "l", "u", "e", "s">>,
    <<"i", "n", "d", "i", "e">>
>>

EmotionKeys == <<
    <<"h", "a", "p", "p", "y">>,
    <<"s", "a", "d">>,
    <<"r", "o", "m", "a", "n", "t", "i", "c">>,
    <<"e", "n", "e", "r", "g", "e", "t", "i", "c">>,
    <<"m", "e", "l", "a", "n", "c", "h", "o", "l", "i", "c">>,
    <<"h", "o", "p", "e", "f", "u", "l">>,
    <<"n", "o", "s", "t", "a", "l", "g", "i", "c">>,
    <<"p", "e", "a", "c", "e", "f", "u", "l">>,
    <<"e", "x", "c", "i", "t", "e", "d">>,
    <<"c", "o", "n", "t", "e", "m", "p", "l", "a", "t", "i", "v", "e">>
>>

LanguageKeys == <<
    <<"e", "n", "g", "l", "i", "s", "h">>,
    <<"s", "p", "a", "n", "i", "s", "h">>,
    <<"f", "r", "e", "n", "c", "h">>,
    <<"g", "e", "r", "m", "a", "n">>,
    <<"i", "t", "a", "l", "i", "a", "n">>,
    <<"p", "o", "r", "t", "u", "g", "u", "e", "s", "e">>,
    <<"j", "a", "p", "a", "n", "e", "s", "e">>,
    <<"k", "o", "r", "e", "a", "n">>
>>

Range(seq) == {seq[i] : i \in 1..Len(seq)}

ValidGenres == Range(GenreKeys)
ValidEmotions == Range(EmotionKeys)
ValidLanguages == Range(LanguageKeys)

GenreMessage ==
    <<"U", "n", "s", "u", "p", "p", "o", "r", "t", "e", "d", " ", "g", "e",
      "n", "r", "e", ".", " ", "S", "u", "p", "p", "o", "r", "t", "e", "d",
      " ", "g", "e", "n", "r", "e", "s", ":", " ">>

EmotionMessage ==
    <<"U", "n", "s", "u", "p", "p", "o", "r", "t", "e", "d", " ", "e", "m",
      "o", "t", "i", "o", "n", ".", " ", "S", "u", "p", "p", "o", "r", "t",
      "e", "d", " ", "e", "m", "o", "t", "i", "o", "n", "s", ":", " ">>

LanguageMessage ==
    <<"U", "n", "s", "u", "p", "p", "o", "r", "t", "e", "d", " ", "l", "a",
      "n", "g", "u", "a", "g", "e", ".", " ", "S", "u", "p", "p", "o", "r",
      "t", "e", "d", " ", "l", "a", "n", "g", "u", "a", "g", "e", "s", ":",
      " ">>

GenerationFailedMessage ==
    <<"F", "a", "i", "l", "e", "d", " ", "t", "o", " ", "g", "e", "n", "e",
      "r", "a", "t", "e", " ", "l", "y", "r", "i", "c", "s", ".", " ", "P",
      "l", "e", "a", "s", "e", " ", "t", "r", "y", " ", "a", "g", "a", "i",
      "n", ".">>

\* a LyricsRequest as json decodes it: a field the body omits has Go's zero
\* value, so an omitted structure is verses 0, chorus false, bridge false
Request(keywords, genre, emotion, language, verses, chorus, bridge) ==
    [keywords |-> keywords, genre |-> genre, emotion |-> emotion,
     language |-> language,
     structure |-> [verses |-> verses, chorus |-> chorus, bridge |-> bridge]]

NoRequest == Request(<<>>, <<>>, <<>>, <<>>, 0, FALSE, FALSE)

\* the binding tags of LyricsRequest and SongStructure, as the validator of
\* ShouldBindJSON applies them: required and min=1,max=10 on the length of
\* Keywords (the keywords themselves carry no tag), required on the three
\* strings, min=1,max=4 on Verses (the nested struct is validated too, and
\* without omitempty the zero value is held against min=1)
BindErrors(r) ==
    {f \in {"Keywords", "Genre", "Emotion", "Language", "Verses"} :
        \/ f = "Keywords" /\ ~(Len(r.keywords) >= MinKeywords
                               /\ Len(r.keywords) <= MaxKeywords)
        \/ f = "Genre" /\ r.genre = <<>>
        \/ f = "Emotion" /\ r.emotion = <<>>
        \/ f = "Language" /\ r.language = <<>>
        \/ f = "Verses" /\ ~(r.structure.verses >= MinVerses
                             /\ r.structure.verses <= MaxVerses)}

\* c.ShouldBindJSON(&req) returns no error
BindOK(r) == BindErrors(r) = {}

\* IsValid that looks the value up as submitted
IsValidExact(value, validSet) == value \in validSet

\* ValidGenres[strings.ToLower(req.Genre)], and the same for the emotion and
\* the language
IsValid(value, validSet) == ToLower(value) \in validSet

\* Verdict that validates the emotion before the genre
VerdictEmotionFirst(r) ==
    IF ~BindOK(r) THEN "invalid_request"
    ELSE IF ~IsValid(r.emotion, ValidEmotions) THEN "invalid_emotion"
    ELSE IF ~IsValid(r.genre, ValidGenres) THEN "invalid_genre"
    ELSE IF ~IsValid(r.language, ValidLanguages) THEN "invalid_language"
    ELSE "accepted"

\* the checks of the handler in their order: the error code of the first
\* check that fails, or "accepted"
Verdict(r) ==
    IF ~BindOK(r) THEN "invalid_request"
    ELSE IF ~IsValid(r.genre, ValidGenres) THEN "invalid_genre"
    ELSE IF ~IsValid(r.emotion, ValidEmotions) THEN "invalid_emotion"
    ELSE IF ~IsValid(r.language, ValidLanguages) THEN "invalid_language"
    ELSE "accepted"

\* WithDefaults that sets the chorus only through the request
WithDefaultsChorusKept(r) ==
    [r EXCEPT !.structure.verses = IF @ = 0 THEN DefaultVerses ELSE @]

\* "Set default structure if not provided"
WithDefaults(r) ==
    [r EXCEPT !.structure.verses = IF @ = 0 THEN DefaultVerses ELSE @,
              !.structure.chorus = TRUE]

RECURSIVE JoinWith(_, _)
\* strings.Join(elems, sep)
JoinWith(elems, sep) ==
    IF Len(elems) = 0 THEN <<>>
    ELSE IF Len(elems) = 1 THEN elems[1]
    ELSE elems[1] \o sep \o JoinWith(Tail(elems), sep)

\* fmt's %t and %d
FormatBool(b) == IF b THEN <<"t", "r", "u", "e">> ELSE <<"f", "a", "l", "s", "e">>

Digits == <<"0", "1", "2", "3", "4", "5", "6", "7", "8", "9">>

RECURSIVE FormatInt(_)
FormatInt(n) ==
    IF n < Len(Digits) THEN <<Digits[n + 1]>>
    ELSE FormatInt(n \div Len(Digits)) \o <<Digits[(n % Len(Digits)) + 1]>>

\* buildPrompt: the values that fmt.Sprintf puts into the fixed text of the
\* prompt, each as it is formatted
buildPrompt(req) ==
    [language |-> req.language,
     genre |-> req.genre,
     emotion |-> req.emotion,
     keywords |-> JoinWith(req.keywords, <<",", " ">>),
     verses |-> FormatInt(req.structure.verses),
     chorus |-> FormatBool(req.structure.chorus),
     bridge |-> FormatBool(req.structure.bridge)]

\* an order in which one iteration visits the n keys of a map: Go leaves the
\* order of range over a map unspecified, so every permutation of 1..n is
\* one the iteration can take
IsOrder(order, n) ==
    /\ DOMAIN order = 1..n
    /\ {order[i] : i \in 1..n} = 1..n

\* the keys as the iteration that takes this order appends them to options
KeysFrom(keys, order) ==
    [i \in 1..Len(keys) |-> keys[order[i]]]

\* getValidOptions that leaves out the key the iteration visits first
getValidOptionsButFirst(keys, order) ==
    JoinWith(Tail(KeysFrom(keys, order)), <<",", " ">>)

\* getValidOptions, for the iteration that takes this order
getValidOptions(keys, order) == JoinWith(KeysFrom(keys, order), <<",", " ">>)

\* Orders of a map of n keys, of its n! orders: those that start after the
\* first k keys, the one from the last key to the first, and the one that
\* visits the second key before the first.  A handler step takes any order
\* (IsOrder) and reaches the same state with each, since the response holds
\* the listed options without their order; the specifications draw the
\* order of a step from these.
SampleOrders(n) ==
    IF n = 0 THEN {<<>>}
    ELSE {[i \in 1..n |-> ((i + k - 1) % n) + 1] : k \in 0..(n - 1)}
            \cup {[i \in 1..n |-> n + 1 - i]}
            \cup (IF n >= 2
                  THEN {[i \in 1..n |-> IF i = 1 THEN 2 ELSE IF i = 2 THEN 1 ELSE i]}
                  ELSE {})

(***************************************************************************)
(* sanitizeForLogging and the diagnostic records that carry a credential,  *)
(* a value made from one, or a body of the token endpoint.                 *)
(***************************************************************************)
SecretMinLen == 20

\* strings.Contains
Contains(s, sub) ==
    \E i \in 1..(Len(s) - Len(sub) + 1) : SubSeq(s, i, i + Len(sub) - 1) = sub

RedactedBearer ==
    <<"[", "R", "E", "D", "A", "C", "T", "E", "D", "_", "B", "E", "A", "R",
      "E", "R", "_", "T", "O", "K", "E", "N", "]">>

RedactedAPIKey ==
    <<"[", "R", "E", "D", "A", "C", "T", "E", "D", "_", "A", "P", "I", "_",
      "K", "E", "Y", "]">>

RedactedToken ==
    <<"[", "R", "E", "D", "A", "C", "T", "E", "D", "_", "T", "O", "K", "E",
      "N", "]">>

RedactedCredentials ==
    <<"[", "R", "E", "D", "A", "C", "T", "E", "D", "_", "C", "R", "E", "D",
      "E", "N", "T", "I", "A", "L", "S", "]">>

BearerPrefix ==
    <<"B", "e", "a", "r", "e", "r", " ">>

\* the prefixes of "Redact any string that looks like an API key or token"
TokenPrefixes ==
    {<<"s", "k", "-">>, <<"p", "k", "-">>, <<"a", "p", "i", "_">>,
     <<"t", "o", "k", "e", "n", "_">>, <<"e", "y">>,
     <<"a", "c", "c", "e", "s", "s", "_", "t", "o", "k", "e", "n">>}

\* the characters that UTF-8 encodes in one byte (U+0000 to U+007F) and in
\* two (U+0080 to U+07FF)
OneByteChars ==
    {"U+0000", "", "", "", "", "", "", "", "", "\t", "\n", "", "\f",
     "\r", "", "", "", "", "", "", "", "", "", "", "", "", "",
     "", "", "", "", "", " ", "!", "\"", "#", "$", "%", "&", "'", "(",
     ")", "*", "+", ",", "-", ".", "/", "0", "1", "2", "3", "4", "5", "6", "7",
     "8", "9", ":", ";", "<", "=", ">", "?", "@", "A", "B", "C", "D", "E", "F",
     "G", "H", "I", "J", "K", "L", "M", "N", "O", "P", "Q", "R", "S", "T", "U",
     "V", "W", "X", "Y", "Z", "[", "\\", "]", "^", "_", "U+0060", "a", "b",
     "c", "d", "e", "f", "g", "h", "i", "j", "k", "l", "m", "n", "o", "p", "q",
     "r", "s", "t", "u", "v", "w", "x", "y", "z", "{", "|", "}", "~", ""}
TwoByteChars ==
    {"", "", "", "", "", "", "", "", "", "", "", "", "", "", "",
     "", "", "", "", "", "", "", "", "", "", "", "", "", "", "",
     "", "", " ", "¡", "¢", "£", "¤", "¥", "¦", "§", "¨", "©", "ª", "«", "¬",
     "­", "®", "¯", "°", "±", "²", "³", "´", "µ", "¶", "·", "¸", "¹", "º", "»",
     "¼", "½", "¾", "¿", "À", "Á", "Â", "Ã", "Ä", "Å", "Æ", "Ç", "È", "É", "Ê",
     "Ë", "Ì", "Í", "Î", "Ï", "Ð", "Ñ", "Ò", "Ó", "Ô", "Õ", "Ö", "×", "Ø", "Ù",
     "Ú", "Û", "Ü", "Ý", "Þ", "ß", "à", "á", "â", "ã", "ä", "å", "æ", "ç", "è",
     "é", "ê", "ë", "ì", "í", "î", "ï", "ð", "ñ", "ò", "ó", "ô", "õ", "ö", "÷",
     "ø", "ù", "ú", "û", "ü", "ý", "þ", "ÿ", "U+0100", "U+0101", "U+0102",
     "U+0103", "U+0104", "U+0105", "U+0106", "U+0107", "U+0108", "U+0109",
     "U+010A", "U+010B", "U+010C", "U+010D", "U+010E", "U+010F", "U+0110",
     "U+0111", "U+0112", "U+0113", "U+0114", "U+0115", "U+0116", "U+0117",
     "U+0118", "U+0119", "U+011A", "U+011B", "U+011C", "U+011D", "U+011E",
     "U+011F", "U+0120", "U+0121", "U+0122", "U+0123", "U+0124", "U+0125",
     "U+0126", "U+0127", "U+0128", "U+0129", "U+012A", "U+012B", "U+012C",
     "U+012D", "U+012E", "U+012F", "U+0130", "U+0131", "U+0132", "U+0133",
     "U+0134", "U+0135", "U+0136", "U+0137", "U+0138", "U+0139", "U+013A",
     "U+013B", "U+013C", "U+013D", "U+013E", "U+013F", "U+0140", "U+0141",
     "U+0142", "U+0143", "U+0144", "U+0145", "U+0146", "U+0147", "U+0148",
     "U+0149", "U+014A", "U+014B", "U+014C", "U+014D", "U+014E", "U+014F",
     "U+0150", "U+0151", "U+0152", "U+0153", "U+0154", "U+0155", "U+0156",
     "U+0157", "U+0158", "U+0159", "U+015A", "U+015B", "U+015C", "U+015D",
     "U+015E", "U+015F", "U+0160", "U+0161", "U+0162", "U+0163", "U+0164",
     "U+0165", "U+0166", "U+0167", "U+0168", "U+0169", "U+016A", "U+016B",
     "U+016C", "U+016D", "U+016E", "U+016F", "U+0170", "U+0171", "U+0172",
     "U+0173", "U+0174", "U+0175", "U+0176", "U+0177", "U+0178", "U+0179",
     "U+017A", "U+017B", "U+017C", "U+017D", "U+017E", "U+017F", "ƀ", "Ɓ", "Ƃ",
     "ƃ", "Ƅ", "ƅ", "Ɔ", "Ƈ", "ƈ", "Ɖ", "Ɗ", "Ƌ", "ƌ", "ƍ", "Ǝ", "Ə", "Ɛ", "Ƒ",
     "ƒ", "Ɠ", "Ɣ", "ƕ", "Ɩ", "Ɨ", "Ƙ", "ƙ", "ƚ", "ƛ", "Ɯ", "Ɲ", "ƞ", "Ɵ", "Ơ",
     "ơ", "Ƣ", "ƣ", "Ƥ", "ƥ", "Ʀ", "Ƨ", "ƨ", "Ʃ", "ƪ", "ƫ", "Ƭ", "ƭ", "Ʈ", "Ư",
     "ư", "Ʊ", "Ʋ", "Ƴ", "ƴ", "Ƶ", "ƶ", "Ʒ", "Ƹ", "ƹ", "ƺ", "ƻ", "Ƽ", "ƽ", "ƾ",
     "ƿ", "ǀ", "ǁ", "ǂ", "ǃ", "Ǆ", "ǅ", "ǆ", "Ǉ", "ǈ", "ǉ", "Ǌ", "ǋ", "ǌ", "Ǎ",
     "ǎ", "Ǐ", "ǐ", "Ǒ", "ǒ", "Ǔ", "ǔ", "Ǖ", "ǖ", "Ǘ", "ǘ", "Ǚ", "ǚ", "Ǜ", "ǜ",
     "ǝ", "Ǟ", "ǟ", "Ǡ", "ǡ", "Ǣ", "ǣ", "Ǥ", "ǥ", "Ǧ", "ǧ", "Ǩ", "ǩ", "Ǫ", "ǫ",
     "Ǭ", "ǭ", "Ǯ", "ǯ", "ǰ", "Ǳ", "ǲ", "ǳ", "Ǵ", "ǵ", "Ƕ", "Ƿ", "Ǹ", "ǹ", "Ǻ",
     "ǻ", "Ǽ", "ǽ", "Ǿ", "ǿ", "U+0200", "U+0201", "U+0202", "U+0203", "U+0204",
     "U+0205", "U+0206", "U+0207", "U+0208", "U+0209", "U+020A", "U+020B",
     "U+020C", "U+020D", "U+020E", "U+020F", "U+0210", "U+0211", "U+0212",
     "U+0213", "U+0214", "U+0215", "U+0216", "U+0217", "U+0218", "U+0219",
     "U+021A", "U+021B", "U+021C", "U+021D", "U+021E", "U+021F", "U+0220",
     "U+0221", "U+0222", "U+0223", "U+0224", "U+0225", "U+0226", "U+0227",
     "U+0228", "U+0229", "U+022A", "U+022B", "U+022C", "U+022D", "U+022E",
     "U+022F", "U+0230", "U+0231", "U+0232", "U+0233", "U+0234", "U+0235",
     "U+0236", "U+0237", "U+0238", "U+0239", "U+023A", "U+023B", "U+023C",
     "U+023D", "U+023E", "U+023F", "U+0240", "U+0241", "U+0242", "U+0243",
     "U+0244", "U+0245", "U+0246", "U+0247", "U+0248", "U+0249", "U+024A",
     "U+024B", "U+024C", "U+024D", "U+024E", "U+024F", "U+0250", "U+0251",
     "U+0252", "U+0253", "U+0254", "U+0255", "U+0256", "U+0257", "U+0258",
     "U+0259", "U+025A", "U+025B", "U+025C", "U+025D", "U+025E", "U+025F",
     "U+0260", "U+0261", "U+0262", "U+0263", "U+0264", "U+0265", "U+0266",
     "U+0267", "U+0268", "U+0269", "U+026A", "U+026B", "U+026C", "U+026D",
     "U+026E", "U+026F", "U+0270", "U+0271", "U+0272", "U+0273", "U+0274",
     "U+0275", "U+0276", "U+0277", "U+0278", "U+0279", "U+027A", "U+027B",
     "U+027C", "U+027D", "U+027E", "U+027F", "ʀ", "ʁ", "ʂ", "ʃ", "ʄ", "ʅ", "ʆ",
     "ʇ", "ʈ", "ʉ", "ʊ", "ʋ", "ʌ", "ʍ", "ʎ", "ʏ", "ʐ", "ʑ", "ʒ", "ʓ", "ʔ", "ʕ",
     "ʖ", "ʗ", "ʘ", "ʙ", "ʚ", "ʛ", "ʜ", "ʝ", "ʞ", "ʟ", "ʠ", "ʡ", "ʢ", "ʣ", "ʤ",
     "ʥ", "ʦ", "ʧ", "ʨ", "ʩ", "ʪ", "ʫ", "ʬ", "ʭ", "ʮ", "ʯ", "ʰ", "ʱ", "ʲ", "ʳ",
     "ʴ", "ʵ", "ʶ", "ʷ", "ʸ", "ʹ", "ʺ", "ʻ", "ʼ", "ʽ", "ʾ", "ʿ", "ˀ", "ˁ", "˂",
     "˃", "˄", "˅", "ˆ", "ˇ", "ˈ", "ˉ", "ˊ", "ˋ", "ˌ", "ˍ", "ˎ", "ˏ", "ː", "ˑ",
     "˒", "˓", "˔", "˕", "˖", "˗", "˘", "˙", "˚", "˛", "˜", "˝", "˞", "˟", "ˠ",
     "ˡ", "ˢ", "ˣ", "ˤ", "˥", "˦", "˧", "˨", "˩", "˪", "˫", "ˬ", "˭", "ˮ", "˯",
     "˰", "˱", "˲", "˳", "˴", "˵", "˶", "˷", "˸", "˹", "˺", "˻", "˼", "˽", "˾",
     "˿", "U+0300", "U+0301", "U+0302", "U+0303", "U+0304", "U+0305", "U+0306",
     "U+0307", "U+0308", "U+0309", "U+030A", "U+030B", "U+030C", "U+030D",
     "U+030E", "U+030F", "U+0310", "U+0311", "U+0312", "U+0313", "U+0314",
     "U+0315", "U+0316", "U+0317", "U+0318", "U+0319", "U+031A", "U+031B",
     "U+031C", "U+031D", "U+031E", "U+031F", "U+0320", "U+0321", "U+0322",
     "U+0323", "U+0324", "U+0325", "U+0326", "U+0327", "U+0328", "U+0329",
     "U+032A", "U+032B", "U+032C", "U+032D", "U+032E", "U+032F", "U+0330",
     "U+0331", "U+0332", "U+0333", "U+0334", "U+0335", "U+0336", "U+0337",
     "U+0338", "U+0339", "U+033A", "U+033B", "U+033C", "U+033D", "U+033E",
     "U+033F", "U+0340", "U+0341", "U+0342", "U+0343", "U+0344", "U+0345",
     "U+0346", "U+0347", "U+0348", "U+0349", "U+034A", "U+034B", "U+034C",
     "U+034D", "U+034E", "U+034F", "U+0350", "U+0351", "U+0352", "U+0353",
     "U+0354", "U+0355", "U+0356", "U+0357", "U+0358", "U+0359", "U+035A",
     "U+035B", "U+035C", "U+035D", "U+035E", "U+035F", "U+0360", "U+0361",
     "U+0362", "U+0363", "U+0364", "U+0365", "U+0366", "U+0367", "U+0368",
     "U+0369", "U+036A", "U+036B", "U+036C", "U+036D", "U+036E", "U+036F",
     "U+0370", "U+0371", "U+0372", "U+0373", "U+0374", "U+0375", "U+0376",
     "U+0377", "U+0378", "U+0379", "U+037A", "U+037B", "U+037C", "U+037D",
     "U+037E", "U+037F", "΀", "΁", "΂", "΃", "΄", "΅", "Ά", "·", "Έ", "Ή", "Ί",
     "΋", "Ό", "΍", "Ύ", "Ώ", "ΐ", "Α", "Β", "Γ", "Δ", "Ε", "Ζ", "Η", "Θ", "Ι",
     "Κ", "Λ", "Μ", "Ν", "Ξ", "Ο", "Π", "Ρ", "΢", "Σ", "Τ", "Υ", "Φ", "Χ", "Ψ",
     "Ω", "Ϊ", "Ϋ", "ά", "έ", "ή", "ί", "ΰ", "α", "β", "γ", "δ", "ε", "ζ", "η",
     "θ", "ι", "κ", "λ", "μ", "ν", "ξ", "ο", "π", "ρ", "ς", "σ", "τ", "υ", "φ",
     "χ", "ψ", "ω", "ϊ", "ϋ", "ό", "ύ", "ώ", "Ϗ", "ϐ", "ϑ", "ϒ", "ϓ", "ϔ", "ϕ",
     "ϖ", "ϗ", "Ϙ", "ϙ", "Ϛ", "ϛ", "Ϝ", "ϝ", "Ϟ", "ϟ", "Ϡ", "ϡ", "Ϣ", "ϣ", "Ϥ",
     "ϥ", "Ϧ", "ϧ", "Ϩ", "ϩ", "Ϫ", "ϫ", "Ϭ", "ϭ", "Ϯ", "ϯ", "ϰ", "ϱ", "ϲ", "ϳ",
     "ϴ", "ϵ", "϶", "Ϸ", "ϸ", "Ϲ", "Ϻ", "ϻ", "ϼ", "Ͻ", "Ͼ", "Ͽ", "U+0400",
     "U+0401", "U+0402", "U+0403", "U+0404", "U+0405", "U+0406", "U+0407",
     "U+0408", "U+0409", "U+040A", "U+040B", "U+040C", "U+040D", "U+040E",
     "U+040F", "U+0410", "U+0411", "U+0412", "U+0413", "U+0414", "U+0415",
     "U+0416", "U+0417", "U+0418", "U+0419", "U+041A", "U+041B", "U+041C",
     "U+041D", "U+041E", "U+041F", "U+0420", "U+0421", "U+0422", "U+0423",
     "U+0424", "U+0425", "U+0426", "U+0427", "U+0428", "U+0429", "U+042A",
     "U+042B", "U+042C", "U+042D", "U+042E", "U+042F", "U+0430", "U+0431",
     "U+0432", "U+0433", "U+0434", "U+0435", "U+0436", "U+0437", "U+0438",
     "U+0439", "U+043A", "U+043B", "U+043C", "U+043D", "U+043E", "U+043F",
     "U+0440", "U+0441", "U+0442", "U+0443", "U+0444", "U+0445", "U+0446",
     "U+0447", "U+0448", "U+0449", "U+044A", "U+044B", "U+044C", "U+044D",
     "U+044E", "U+044F", "U+0450", "U+0451", "U+0452", "U+0453", "U+0454",
     "U+0455", "U+0456", "U+0457", "U+0458", "U+0459", "U+045A", "U+045B",
     "U+045C", "U+045D", "U+045E", "U+045F", "U+0460", "U+0461", "U+0462",
     "U+0463", "U+0464", "U+0465", "U+0466", "U+0467", "U+0468", "U+0469",
     "U+046A", "U+046B", "U+046C", "U+046D", "U+046E", "U+046F", "U+0470",
     "U+0471", "U+0472", "U+0473", "U+0474", "U+0475", "U+0476", "U+0477",
     "U+0478", "U+0479", "U+047A", "U+047B", "U+047C", "U+047D", "U+047E",
     "U+047F", "Ҁ", "ҁ", "҂", "҃", "҄", "҅", "҆", "҇", "҈", "҉", "Ҋ", "ҋ", "Ҍ",
     "ҍ", "Ҏ", "ҏ", "Ґ", "ґ", "Ғ", "ғ", "Ҕ", "ҕ", "Җ", "җ", "Ҙ", "ҙ", "Қ", "қ",
     "Ҝ", "ҝ", "Ҟ", "ҟ", "Ҡ", "ҡ", "Ң", "ң", "Ҥ", "ҥ", "Ҧ", "ҧ", "Ҩ", "ҩ", "Ҫ",
     "ҫ", "Ҭ", "ҭ", "Ү", "ү", "Ұ", "ұ", "Ҳ", "ҳ", "Ҵ", "ҵ", "Ҷ", "ҷ", "Ҹ", "ҹ",
     "Һ", "һ", "Ҽ", "ҽ", "Ҿ", "ҿ", "Ӏ", "Ӂ", "ӂ", "Ӄ", "ӄ", "Ӆ", "ӆ", "Ӈ", "ӈ",
     "Ӊ", "ӊ", "Ӌ", "ӌ", "Ӎ", "ӎ", "ӏ", "Ӑ", "ӑ", "Ӓ", "ӓ", "Ӕ", "ӕ", "Ӗ", "ӗ",
     "Ә", "ә", "Ӛ", "ӛ", "Ӝ", "ӝ", "Ӟ", "ӟ", "Ӡ", "ӡ", "Ӣ", "ӣ", "Ӥ", "ӥ", "Ӧ",
     "ӧ", "Ө", "ө", "Ӫ", "ӫ", "Ӭ", "ӭ", "Ӯ", "ӯ", "Ӱ", "ӱ", "Ӳ", "ӳ", "Ӵ", "ӵ",
     "Ӷ", "ӷ", "Ӹ", "ӹ", "Ӻ", "ӻ", "Ӽ", "ӽ", "Ӿ", "ӿ", "U+0500", "U+0501",
     "U+0502", "U+0503", "U+0504", "U+0505", "U+0506", "U+0507", "U+0508",
     "U+0509", "U+050A", "U+050B", "U+050C", "U+050D", "U+050E", "U+050F",
     "U+0510", "U+0511", "U+0512", "U+0513", "U+0514", "U+0515", "U+0516",
     "U+0517", "U+0518", "U+0519", "U+051A", "U+051B", "U+051C", "U+051D",
     "U+051E", "U+051F", "U+0520", "U+0521", "U+0522", "U+0523", "U+0524",
     "U+0525", "U+0526", "U+0527", "U+0528", "U+0529", "U+052A", "U+052B",
     "U+052C", "U+052D", "U+052E", "U+052F", "U+0530", "U+0531", "U+0532",
     "U+0533", "U+0534", "U+0535", "U+0536", "U+0537", "U+0538", "U+0539",
     "U+053A", "U+053B", "U+053C", "U+053D", "U+053E", "U+053F", "U+0540",
     "U+0541", "U+0542", "U+0543", "U+0544", "U+0545", "U+0546", "U+0547",
     "U+0548", "U+0549", "U+054A", "U+054B", "U+054C", "U+054D", "U+054E",
     "U+054F", "U+0550", "U+0551", "U+0552", "U+0553", "U+0554", "U+0555",
     "U+0556", "U+0557", "U+0558", "U+0559", "U+055A", "U+055B", "U+055C",
     "U+055D", "U+055E", "U+055F", "U+0560", "U+0561", "U+0562", "U+0563",
     "U+0564", "U+0565", "U+0566", "U+0567", "U+0568", "U+0569", "U+056A",
     "U+056B", "U+056C", "U+056D", "U+056E", "U+056F", "U+0570", "U+0571",
     "U+0572", "U+0573", "U+0574", "U+0575", "U+0576", "U+0577", "U+0578",
     "U+0579", "U+057A", "U+057B", "U+057C", "U+057D", "U+057E", "U+057F", "ր",
     "ց", "ւ", "փ", "ք", "օ", "ֆ", "և", "ֈ", "։", "֊", "֋", "֌", "֍", "֎", "֏",
     "֐", "֑", "֒", "֓", "֔", "֕", "֖", "֗", "֘", "֙", "֚", "֛", "֜", "֝", "֞",
     "֟", "֠", "֡", "֢", "֣", "֤", "֥", "֦", "֧", "֨", "֩", "֪", "֫", "֬", "֭",
     "֮", "֯", "ְ", "ֱ", "ֲ", "ֳ", "ִ", "ֵ", "ֶ", "ַ", "ָ", "ֹ", "ֺ", "ֻ", "ּ",
     "ֽ", "־", "ֿ", "׀", "ׁ", "ׂ", "׃", "ׄ", "ׅ", "׆", "ׇ", "׈", "׉", "׊", "׋",
     "׌", "׍", "׎", "׏", "א", "ב", "ג", "ד", "ה", "ו", "ז", "ח", "ט", "י", "ך",
     "כ", "ל", "ם", "מ", "ן", "נ", "ס", "ע", "ף", "פ", "ץ", "צ", "ק", "ר", "ש",
     "ת", "׫", "׬", "׭", "׮", "ׯ", "װ", "ױ", "ײ", "׳", "״", "׵", "׶", "׷", "׸",
     "׹", "׺", "׻", "׼", "׽", "׾", "׿", "U+0600", "U+0601", "U+0602", "U+0603",
     "U+0604", "U+0605", "U+0606", "U+0607", "U+0608", "U+0609", "U+060A",
     "U+060B", "U+060C", "U+060D", "U+060E", "U+060F", "U+0610", "U+0611",
     "U+0612", "U+0613", "U+0614", "U+0615", "U+0616", "U+0617", "U+0618",
     "U+0619", "U+061A", "U+061B", "U+061C", "U+061D", "U+061E", "U+061F",
     "U+0620", "U+0621", "U+0622", "U+0623", "U+0624", "U+0625", "U+0626",
     "U+0627", "U+0628", "U+0629", "U+062A", "U+062B", "U+062C", "U+062D",
     "U+062E", "U+062F", "U+0630", "U+0631", "U+0632", "U+0633", "U+0634",
     "U+0635", "U+0636", "U+0637", "U+0638", "U+0639", "U+063A", "U+063B",
     "U+063C", "U+063D", "U+063E", "U+063F", "U+0640", "U+0641", "U+0642",
     "U+0643", "U+0644", "U+0645", "U+0646", "U+0647", "U+0648", "U+0649",
     "U+064A", "U+064B", "U+064C", "U+064D", "U+064E", "U+064F", "U+0650",
     "U+0651", "U+0652", "U+0653", "U+0654", "U+0655", "U+0656", "U+0657",
     "U+0658", "U+0659", "U+065A", "U+065B", "U+065C", "U+065D", "U+065E",
     "U+065F", "U+0660", "U+0661", "U+0662", "U+0663", "U+0664", "U+0665",
     "U+0666", "U+0667", "U+0668", "U+0669", "U+066A", "U+066B", "U+066C",
     "U+066D", "U+066E", "U+066F", "U+0670", "U+0671", "U+0672", "U+0673",
     "U+0674", "U+0675", "U+0676", "U+0677", "U+0678", "U+0679", "U+067A",
     "U+067B", "U+067C", "U+067D", "U+067E", "U+067F", "ڀ", "ځ", "ڂ", "ڃ", "ڄ",
     "څ", "چ", "ڇ", "ڈ", "ډ", "ڊ", "ڋ", "ڌ", "ڍ", "ڎ", "ڏ", "ڐ", "ڑ", "ڒ", "ړ",
     "ڔ", "ڕ", "ږ", "ڗ", "ژ", "ڙ", "ښ", "ڛ", "ڜ", "ڝ", "ڞ", "ڟ", "ڠ", "ڡ", "ڢ",
     "ڣ", "ڤ", "ڥ", "ڦ", "ڧ", "ڨ", "ک", "ڪ", "ګ", "ڬ", "ڭ", "ڮ", "گ", "ڰ", "ڱ",
     "ڲ", "ڳ", "ڴ", "ڵ", "ڶ", "ڷ", "ڸ", "ڹ", "ں", "ڻ", "ڼ", "ڽ", "ھ", "ڿ", "ۀ",
     "ہ", "ۂ", "ۃ", "ۄ", "ۅ", "ۆ", "ۇ", "ۈ", "ۉ", "ۊ", "ۋ", "ی", "ۍ", "ێ", "ۏ",
     "ې", "ۑ", "ے", "ۓ", "۔", "ە", "ۖ", "ۗ", "ۘ", "ۙ", "ۚ", "ۛ", "ۜ", "۝", "۞",
     "۟", "۠", "ۡ", "ۢ", "ۣ", "ۤ", "ۥ", "ۦ", "ۧ", "ۨ", "۩", "۪", "۫", "۬", "ۭ",
     "ۮ", "ۯ", "۰", "۱", "۲", "۳", "۴", "۵", "۶", "۷", "۸", "۹", "ۺ", "ۻ", "ۼ",
     "۽", "۾", "ۿ", "U+0700", "U+0701", "U+0702", "U+0703", "U+0704", "U+0705",
     "U+0706", "U+0707", "U+0708", "U+0709", "U+070A", "U+070B", "U+070C",
     "U+070D", "U+070E", "U+070F", "U+0710", "U+0711", "U+0712", "U+0713",
     "U+0714", "U+0715", "U+0716", "U+0717", "U+0718", "U+0719", "U+071A",
     "U+071B", "U+071C", "U+071D", "U+071E", "U+071F", "U+0720", "U+0721",
     "U+0722", "U+0723", "U+0724", "U+0725", "U+0726", "U+0727", "U+0728",
     "U+0729", "U+072A", "U+072B", "U+072C", "U+072D", "U+072E", "U+072F",
     "U+0730", "U+0731", "U+0732", "U+0733", "U+0734", "U+0735", "U+0736",
     "U+0737", "U+0738", "U+0739", "U+073A", "U+073B", "U+073C", "U+073D",
     "U+073E", "U+073F", "U+0740", "U+0741", "U+0742", "U+0743", "U+0744",
     "U+0745", "U+0746", "U+0747", "U+0748", "U+0749", "U+074A", "U+074B",
     "U+074C", "U+074D", "U+074E", "U+074F", "U+0750", "U+0751", "U+0752",
     "U+0753", "U+0754", "U+0755", "U+0756", "U+0757", "U+0758", "U+0759",
     "U+075A", "U+075B", "U+075C", "U+075D", "U+075E", "U+075F", "U+0760",
     "U+0761", "U+0762", "U+0763", "U+0764", "U+0765", "U+0766", "U+0767",
     "U+0768", "U+0769", "U+076A", "U+076B", "U+076C", "U+076D", "U+076E",
     "U+076F", "U+0770", "U+0771", "U+0772", "U+0773", "U+0774", "U+0775",
     "U+0776", "U+0777", "U+0778", "U+0779", "U+077A", "U+077B", "U+077C",
     "U+077D", "U+077E", "U+077F", "ހ", "ށ", "ނ", "ރ", "ބ", "ޅ", "ކ", "އ", "ވ",
     "މ", "ފ", "ދ", "ތ", "ލ", "ގ", "ޏ", "ސ", "ޑ", "ޒ", "ޓ", "ޔ", "ޕ", "ޖ", "ޗ",
     "ޘ", "ޙ", "ޚ", "ޛ", "ޜ", "ޝ", "ޞ", "ޟ", "ޠ", "ޡ", "ޢ", "ޣ", "ޤ", "ޥ", "ަ",
     "ާ", "ި", "ީ", "ު", "ޫ", "ެ", "ޭ", "ޮ", "ޯ", "ް", "ޱ", "޲", "޳", "޴", "޵",
     "޶", "޷", "޸", "޹", "޺", "޻", "޼", "޽", "޾", "޿", "߀", "߁", "߂", "߃", "߄",
     "߅", "߆", "߇", "߈", "߉", "ߊ", "ߋ", "ߌ", "ߍ", "ߎ", "ߏ", "ߐ", "ߑ", "ߒ", "ߓ",
     "ߔ", "ߕ", "ߖ", "ߗ", "ߘ", "ߙ", "ߚ", "ߛ", "ߜ", "ߝ", "ߞ", "ߟ", "ߠ", "ߡ", "ߢ",
     "ߣ", "ߤ", "ߥ", "ߦ", "ߧ", "ߨ", "ߩ", "ߪ", "߫", "߬", "߭", "߮", "߯", "߰", "߱",
     "߲", "߳", "ߴ", "ߵ", "߶", "߷", "߸", "߹", "ߺ", "߻", "߼", "߽", "߾", "߿"}

\* the bytes of a character in UTF-8: four above U+FFFF (a character that
\* is written with more than four digits, or in a string as a pair of
\* surrogates), else three from U+0800 on
CharBytes(ch) ==
    IF ch \in OneByteChars THEN 1
    ELSE IF ch \in TwoByteChars THEN 2
    ELSE IF Len(ch) \in {1, 6} THEN 3
    ELSE 4

RECURSIVE ByteLenFrom(_, _)
ByteLenFrom(input, i) ==
    IF i > Len(input) THEN 0 ELSE CharBytes(input[i]) + ByteLenFrom(input, i + 1)

\* len(input): the length of the string in bytes
ByteLen(input) == ByteLenFrom(input, 1)

sanitizeForLogging(input) ==
    LET lower == ToLower(input) IN
    IF Contains(lower, ToLower(BearerPrefix)) THEN RedactedBearer
    ELSE IF HasPrefix(lower, <<"s", "k", "-">>) THEN RedactedAPIKey
    ELSE IF \E prefix \in TokenPrefixes : HasPrefix(lower, prefix) THEN RedactedToken
    ELSE IF /\ ByteLen(input) > SecretMinLen
            /\ \/ Contains(lower, <<"s", "e", "c", "r", "e", "t">>)
               \/ Contains(lower, <<"c", "l", "i", "e", "n", "t">>)
    THEN RedactedCredentials
    ELSE input

\* the characters of the access tokens of the model
TokenChars(token) ==
    IF token = "t1" THEN <<"t", "1">>
    ELSE IF token = "t2" THEN <<"t", "2">>
    ELSE <<>>

\* "Bearer "+accessToken
BearerOf(token) == BearerPrefix \o TokenChars(token)

\* the client ids of the model: a plain id, ids with the prefixes of a key
\* and of a token, a long id that names the client, and an id of 14
\* characters and 22 bytes that names it
ClientIDs == {
    <<"c", "l", "i", "e", "n", "t", "é", "é", "é", "é", "é", "é", "é", "é">>,
    <<"a", "b", "c", "1", "2", "3">>,
    <<"s", "k", "-", "a", "b", "c">>,
    <<"e", "y", "J", "h", "b", "G">>,
    <<"m", "y", "-", "c", "l", "i", "e", "n", "t", "-", "a", "p", "p", "l",
      "i", "c", "a", "t", "i", "o", "n", "-", "1">>
}

\* What the gateway can answer to one completion call.  net: "doErr" when
\* httpClient.Do fails (no connection, the 30 s client timeout, a cancelled
\* context), "readErr" when reading the body fails, else "ok"; json: whether
\* the body unmarshals into OpenAIChatResponse; hasError: whether the body
\* has an error object; detail: the text of the failure; choices: the
\* message.content of each choice.
CompletionResponse(net, json, status, hasError, detail, choices) ==
    [net |-> net, json |-> json, status |-> status, hasError |-> hasError,
     detail |-> detail, choices |-> choices]

NoCompletion == CompletionResponse("none", FALSE, 0, FALSE, "", <<>>)

\* a diagnostic record: its message, the field of it that can hold a
\* credential or a body ("" when it has none), the string of that field, the
\* body of an answer of the token endpoint as it was read, and the answer
\* of the completion API the record's fields are taken from.  The fields
\* that hold the model, the URL, the prompt and the request are left out.
LogRecord(msg, field, value, body) ==
    [msg |-> msg, field |-> field, value |-> value, body |-> body,
     gateway |-> NoCompletion]

\* a record whose fields are taken from an answer of the completion API
CompletionLogRecord(msg, field, cr) ==
    [LogRecord(msg, field, <<>>, NoResponse) EXCEPT !.gateway = cr]

\* requestNewToken: the Debug record written before the request is sent
ExchangeStartLog(id) ==
    {LogRecord("Requesting OAuth access token", "client_id",
               sanitizeForLogging(id), NoResponse)}

\* requestNewToken: the record written once the exchange has its answer.
\* Two Error records hold string(body); the record of an OAuth error holds
\* the error and the status of the answer, and the Debug record of a stored
\* token its expires_in.  A failed read of the body and an empty token have
\* no record.
ExchangeLog(resp) ==
    IF ExchangeOutcome(resp) = "request_failed"
    THEN {LogRecord("OAuth token request failed", "error", <<>>, NoResponse)}
    ELSE IF ExchangeOutcome(resp) = "parse_failed"
    THEN {LogRecord("Failed to parse OAuth token response", "body", <<>>, resp)}
    ELSE IF ExchangeOutcome(resp) = "oauth_error"
    THEN {LogRecord("OAuth token request error", "error", <<>>,
                    [NoResponse EXCEPT !.error = resp.error, !.status = resp.status])}
    ELSE IF ExchangeOutcome(resp) = "bad_status"
    THEN {LogRecord("OAuth token endpoint returned non-200 status", "body",
                    <<>>, resp)}
    ELSE IF ExchangeOutcome(resp) = "ok"
    THEN {LogRecord("Successfully obtained OAuth access token", "expires_in", <<>>,
                    [NoResponse EXCEPT !.expires_in = resp.expires_in])}
    ELSE {}

\* the body an error of requestNewToken carries in its text: the error for a
\* status other than 200 ends with string(body)
ErrorBody(r) == IF r.err = "bad_status" THEN r.resp ELSE NoResponse

\* GenerateLyrics and the handler: the Error records written with Err(err)
\* when GetAccessToken failed
TokenFailureLog(r) ==
    {LogRecord("Failed to get OAuth access token", "error", <<>>, ErrorBody(r)),
     LogRecord("Error generating lyrics", "error", <<>>, ErrorBody(r))}

\* OAuthTransport.RoundTrip: the Error record written when GetAccessToken
\* failed
TransportFailureLog(r) ==
    {LogRecord("Failed to get OAuth token in transport", "error", <<>>, ErrorBody(r))}

\* OAuthTransport.RoundTrip: the Debug record written before the request is
\* handed to the base transport
TransportLog(token) ==
    {LogRecord("OAuth transport injecting token", "authorization",
               sanitizeForLogging(BearerOf(token)), NoResponse)}

\* GenerateLyrics over the SDK: the Debug record written before
\* Chat.Completions.New is called
SDKStartLog ==
    {LogRecord("Sending request to OpenAI via AI Gateway", "", <<>>, NoResponse)}

\* GenerateLyrics: the Debug record written before the completion call
CompletionStartLog(token) ==
    {LogRecord("Sending request to AI Gateway", "authorization",
               sanitizeForLogging(BearerOf(token)), NoResponse)}

(***************************************************************************)
(* LyricsService.GenerateLyrics: the completion call and the envelope.     *)
(***************************************************************************)
Details == {"d1", "d2"}
UUIDs == {"uuid-a", "uuid-b"}

\* texts of a choice: the texts of ExampleTexts, a text without header, and
\* the empty text
CompletionTexts == ExampleTexts \cup {<<"l", "a", " ", "l", "a">>, <<>>}

ChoiceLists ==
    {<<>>} \cup {<<t>> : t \in CompletionTexts}
    \cup {<<<<"l", "a", " ", "l", "a">>, <<"[", "x", "]", "\n", "y">>>>}

CompletionResponses ==
    {CompletionResponse("doErr", FALSE, 0, FALSE, d, <<>>) : d \in Details}
    \cup {CompletionResponse("readErr", FALSE, st, FALSE, "", <<>>) : st \in Statuses}
    \cup {CompletionResponse("ok", FALSE, st, FALSE, "", <<>>) : st \in Statuses}
    \cup {CompletionResponse("ok", TRUE, st, TRUE, d, ch) :
            st \in Statuses, d \in Details, ch \in {<<>>, <<<<"l", "a">>>>}}
    \cup {CompletionResponse("ok", TRUE, st, FALSE, "", ch) :
            st \in Statuses, ch \in ChoiceLists}

\* CompletionOutcome without the check of the error object
CompletionOutcomeNoErrorCheck(cr) ==
    IF cr.net = "doErr" THEN "request_failed"
    ELSE IF cr.net = "readErr" THEN "read_failed"
    ELSE IF ~cr.json THEN "parse_failed"
    ELSE IF cr.status # StatusOK THEN "bad_status"
    ELSE IF Len(cr.choices) = 0 THEN "no_choices"
    ELSE "ok"

\* the returns of GenerateLyrics after the completion request is built, in
\* order
CompletionOutcome(cr) ==
    IF cr.net = "doErr" THEN "request_failed"
    ELSE IF cr.net = "readErr" THEN "read_failed"
    ELSE IF ~cr.json THEN "parse_failed"
    ELSE IF cr.hasError THEN "api_error"
    ELSE IF cr.status # StatusOK THEN "bad_status"
    ELSE IF Len(cr.choices) = 0 THEN "no_choices"
    ELSE "ok"

\* The services of the repository: "direct" calls the completion API with
\* its API key, "gateway" calls the AI gateway with a token it fetches from
\* the OAuthClient, and "sdk" drives the openai-go client over OAuthTransport.

\* GenerateLyrics: the message of the Error record for a failed completion
\* call; a failed read of the body has no record of its own
CompletionFailureMessage(service, outcome) ==
    IF outcome = "request_failed"
    THEN (IF service = "gateway" THEN "AI Gateway HTTP request failed"
          ELSE "HTTP request failed")
    ELSE IF outcome = "parse_failed"
    THEN (IF service = "gateway" THEN "Failed to parse AI Gateway response"
          ELSE "Failed to parse OpenAI response")
    ELSE IF outcome = "api_error"
    THEN (IF service = "gateway" THEN "AI Gateway API error" ELSE "OpenAI API error")
    ELSE IF outcome = "bad_status"
    THEN (IF service = "gateway" THEN "AI Gateway returned non-200 status"
          ELSE "OpenAI API returned non-200 status")
    ELSE (IF service = "gateway" THEN "AI Gateway returned no choices"
          ELSE "OpenAI API returned no choices")

\* the field of that record that holds the error or string(body)
CompletionFailureField(outcome) ==
    IF outcome = "request_failed" THEN "error"
    ELSE IF outcome = "api_error" THEN "error_message"
    ELSE IF outcome = "no_choices" THEN "response"
    ELSE "body"

\* GenerateLyrics: the message of the Debug record for the lyrics it returns
CompletionSuccessMessage(service) ==
    IF service = "gateway" THEN "Successfully generated lyrics via AI Gateway"
    ELSE IF service = "sdk" THEN "Successfully generated lyrics via OpenAI SDK"
    ELSE "Successfully generated lyrics"

\* the handler: the Error record written with Err(err) when GenerateLyrics
\* returned an error, whose text can end with the body of an answer
HandlerFailureLog(body, cr) ==
    {[LogRecord("Error generating lyrics", "error", <<>>, body) EXCEPT !.gateway = cr]}

\* the records GenerateLyrics and the handler write once the completion
\* call has its answer
CompletionLog(service, cr) ==
    IF CompletionOutcome(cr) = "ok"
    THEN {CompletionLogRecord(CompletionSuccessMessage(service), "response_id", cr)}
    ELSE (IF CompletionOutcome(cr) = "read_failed" THEN {}
          ELSE {CompletionLogRecord(
                    CompletionFailureMessage(service, CompletionOutcome(cr)),
                    CompletionFailureField(CompletionOutcome(cr)), cr)})
         \cup HandlerFailureLog(NoResponse, cr)

\* GenerateLyrics of the service that uses its API key: the Debug record
\* written before the completion call, which has no authorization field
DirectStartLog == {LogRecord("Sending request to OpenAI", "", <<>>, NoResponse)}

\* ContextAllows of a request built without the context of the inbound request
ContextIgnored(ctxCancelled, net) == TRUE

\* http.NewRequestWithContext(ctx, ...): once ctx is cancelled the call
\* fails, in httpClient.Do or while the body is read
ContextAllows(ctxCancelled, net) == ctxCancelled => net \in {"doErr", "readErr"}

NoMetadata ==
    [genre |-> <<>>, emotion |-> <<>>, language |-> <<>>, keywords_used |-> <<>>,
     created_at |-> 0, word_count |-> 0]

NoEnvelope == [id |-> "", lyrics |-> NoLyrics, metadata |-> NoMetadata]

\* Envelope that reports the genre, the emotion and the language in the
\* lower case they were validated in
EnvelopeLowerCased(req, content, id, t) ==
    [id |-> id,
     lyrics |-> parseLyrics(content),
     metadata |-> [genre |-> ToLower(req.genre), emotion |-> ToLower(req.emotion),
                   language |-> ToLower(req.language),
                   keywords_used |-> req.keywords, created_at |-> t,
                   word_count |-> countWords(content)]]

\* the LyricsResponse GenerateLyrics assembles from choices[0].message.content
Envelope(req, content, id, t) ==
    [id |-> id,
     lyrics |-> parseLyrics(content),
     metadata |-> [genre |-> req.genre, emotion |-> req.emotion,
                   language |-> req.language,
                   keywords_used |-> req.keywords, created_at |-> t,
                   word_count |-> countWords(content)]]

\* what GenerateLyrics returned: an envelope or an error, the stage and the
\* text of the error, how the token exchange of the call ended on the
\* network, the body the error of GetAccessToken carries, the token
\* GetAccessToken returned, and the answer to the completion call
NoGen ==
    [kind |-> "none", stage |-> "", err |-> "", detail |-> "",
     tokenNet |-> "none", tokenErr |-> NoResponse, token |-> NoToken,
     cresp |-> NoCompletion]

GenError(g, stage, err, detail) ==
    [g EXCEPT !.kind = "error", !.stage = stage, !.err = err, !.detail = detail]

\* A response of the handler.  Of a message that ends with a list of valid
\* options, message holds the text before the list and options how often
\* the list names each option: the order of the list is that of one
\* iteration over a map, which Go leaves unspecified, and is not held.
HTTPResponse(status, error, message, body) ==
    [status |-> status, error |-> error, message |-> message, options |-> <<>>,
     body |-> body]

NoHTTPResponse == HTTPResponse(0, "", <<>>, NoEnvelope)

\* FailureMessage that passes the error on to the caller
FailureMessageWithDetail(g) ==
    GenerationFailedMessage \o <<" ", g.stage, g.err, g.detail>>

\* the message of the response when GenerateLyrics returned an error
FailureMessage(g) == GenerationFailedMessage

\* the response when GenerateLyrics returned an error
FailureResponse(g) ==
    HTTPResponse(StatusInternalServerError, "generation_failed",
                 FailureMessage(g), NoEnvelope)

(***************************************************************************)
(* The generateLyrics handler as a state machine: it binds and validates   *)
(* the request, GenerateLyrics gets a token from the OAuthClient and sends *)
(* the completion call, and the handler writes the HTTP response.          *)
(***************************************************************************)
PlainClientID == <<"a", "b", "c", "1", "2", "3">>

\* the clients that send requests to POST /api/v1/generate
Clients == {"client-a", "client-b"}

HandlerIdle ==
    /\ served = [k \in Clients |-> 0]
    /\ trips = 0
    /\ hpc = "idle"
    /\ request = NoRequest
    /\ genReq = NoRequest
    /\ cancelled = "no"
    /\ startExchanges = 0
    /\ completions = 0
    /\ gen = NoGen
    /\ response = NoHTTPResponse
    /\ log = {}

\* err.Error() of the validator: the fields that failed, in their order
BindMessage(r) ==
    SelectSeq(<<"Keywords", "Genre", "Emotion", "Language", "Verses">>,
              LAMBDA f : f \in BindErrors(r))

\* the keys of the map whose options the rejection of r lists: those of the
\* first unsupported field, none for a request that fails the binding
OptionKeys(r) ==
    IF Verdict(r) = "invalid_genre" THEN GenreKeys
    ELSE IF Verdict(r) = "invalid_emotion" THEN EmotionKeys
    ELSE IF Verdict(r) = "invalid_language" THEN LanguageKeys
    ELSE <<>>

\* the message the handler writes for a request it rejects, when the
\* iteration over the map of valid options takes this order
RejectionMessage(r, order) ==
    IF Verdict(r) = "invalid_genre"
    THEN GenreMessage \o getValidOptions(GenreKeys, order)
    ELSE IF Verdict(r) = "invalid_emotion"
    THEN EmotionMessage \o getValidOptions(EmotionKeys, order)
    ELSE IF Verdict(r) = "invalid_language"
    THEN LanguageMessage \o getValidOptions(LanguageKeys, order)
    ELSE BindMessage(r)

\* the options a message lists after its prefix: the pieces between the
\* commas, without the blank after each comma
ListedOptions(message, prefix) ==
    LET pieces == Split(TrimPrefix(message, prefix), ",")
    IN  [i \in 1..Len(pieces) |-> TrimSpace(pieces[i])]

\* the response the handler writes for a request it rejects, when the
\* iteration over the map of valid options takes this order: the message
\* RejectionMessage(r, order), held as its prefix and the options it lists.
\* Every order gives the same response.
Rejection(r, order) ==
    LET prefix == IF Verdict(r) = "invalid_genre" THEN GenreMessage
                  ELSE IF Verdict(r) = "invalid_emotion" THEN EmotionMessage
                  ELSE LanguageMessage
        listed == ListedOptions(RejectionMessage(r, order), prefix)
    IN  IF OptionKeys(r) = <<>>
        THEN HTTPResponse(StatusBadRequest, Verdict(r), BindMessage(r), NoEnvelope)
        ELSE [HTTPResponse(StatusBadRequest, Verdict(r), prefix, NoEnvelope)
                 EXCEPT !.options =
                     [k \in {listed[i] : i \in DOMAIN listed} |->
                         Cardinality({i \in DOMAIN listed : listed[i] = k})]]

\* the handler up to the call of GetAccessToken: it binds the body, checks
\* genre, emotion and language, and either answers 400 or sets the defaults
\* of the structure and calls GenerateLyrics, which builds the prompt
Receive(r, order) ==
    /\ hpc \in {"idle", "responded"}
    /\ calls < MaxCalls
    /\ IsOrder(order, Len(OptionKeys(r)))
    /\ request' = r
    /\ cancelled' = "no"
    /\ startExchanges' = exchanges
    /\ completions' = 0
    /\ gen' = NoGen
    /\ log' = {}
    /\ IF Verdict(r) = "accepted"
       THEN /\ genReq' = WithDefaults(r)
            /\ hpc' = "token"
            /\ response' = NoHTTPResponse
       ELSE /\ genReq' = NoRequest
            /\ hpc' = "responded"
            /\ response' = Rejection(r, order)
    /\ UNCHANGED <<clientID, gatewayOK, oauthVars, textVars, rateVars>>

\* the handler of the service that calls the completion API with its API
\* key, on a request of client k, up to the completion call: the router
\* passes every request to the handler, which binds and validates it as
\* Receive does, and GenerateLyrics builds the completion request, writes
\* its Debug record and sends the request without a token exchange; where
\* the request cannot be built it returns and the handler writes its Error
\* record and answers 500
ReceiveDirect(k, r, order) ==
    /\ hpc \in {"idle", "responded"}
    /\ served[k] < MaxServed
    /\ IsOrder(order, Len(OptionKeys(r)))
    /\ request' = r
    /\ cancelled' = "no"
    /\ startExchanges' = exchanges
    /\ IF Verdict(r) = "accepted" /\ gatewayOK
       THEN /\ genReq' = WithDefaults(r)
            /\ hpc' = "completion"
            /\ completions' = 1
            /\ served' = [served EXCEPT ![k] = @ + 1]
            /\ gen' = NoGen
            /\ response' = NoHTTPResponse
            /\ log' = DirectStartLog
       ELSE IF Verdict(r) = "accepted"
       THEN /\ genReq' = WithDefaults(r)
            /\ hpc' = "responded"
            /\ completions' = 0
            /\ gen' = GenError(NoGen, "build", "create_failed", "")
            /\ response' = FailureResponse(gen')
            /\ log' = HandlerFailureLog(NoResponse, NoCompletion)
            /\ UNCHANGED served
       ELSE /\ genReq' = NoRequest
            /\ hpc' = "responded"
            /\ completions' = 0
            /\ gen' = NoGen
            /\ log' = {}
            /\ response' = Rejection(r, order)
            /\ UNCHANGED served
    /\ UNCHANGED <<clientID, gatewayOK, oauthVars, textVars, trips>>

\* the inbound request is cancelled (the client went away) while the handler
\* waits for GetAccessToken or for the completion call
Cancel ==
    /\ hpc \in {"token", "completion", "library"}
    /\ cancelled = "no"
    /\ cancelled' = IF hpc \in {"completion", "library"} THEN "completion"
                    ELSE IF pc[1] = "inflight" THEN "exchange"
                    ELSE "token"
    /\ UNCHANGED <<clientID, gatewayOK, hpc, request, genReq, startExchanges,
                   completions, gen, response, log, oauthVars, textVars, rateVars>>

\* s.oauthClient.GetAccessToken(ctx), step by step
AcquireRLock ==
    /\ hpc = "token"
    /\ RLock(1)
    /\ UNCHANGED <<textVars, reqVars, rateVars>>

AcquireReadCheck ==
    /\ hpc = "token"
    /\ ReadCheck(1)
    /\ UNCHANGED <<textVars, reqVars, rateVars>>

AcquireLock ==
    /\ hpc = "token"
    /\ Lock(1)
    /\ UNCHANGED <<textVars, reqVars, rateVars>>

\* the double-check, and the start of requestNewToken with its Debug record
AcquireDoubleCheck ==
    /\ hpc = "token"
    /\ DoubleCheck(1)
    /\ log' = IF pc'[1] = "inflight" THEN log \cup ExchangeStartLog(clientID)
              ELSE log
    /\ UNCHANGED <<clientID, gatewayOK, hpc, request, genReq, cancelled,
                   startExchanges, completions, gen, response, textVars, rateVars>>

\* the answer to the token exchange, which was sent with the context of the
\* inbound request
AcquireExchangeComplete(resp) ==
    /\ hpc = "token"
    /\ ContextAllows(cancelled # "no", resp.net)
    /\ ExchangeComplete(1, resp)
    /\ log' = log \cup ExchangeLog(resp)
    /\ gen' = [gen EXCEPT !.tokenNet = resp.net]
    /\ UNCHANGED <<clientID, gatewayOK, hpc, request, genReq, cancelled,
                   startExchanges, completions, response, textVars, rateVars>>

\* TokenReturned that sends the completion call whatever GetAccessToken
\* returned
TokenReturnedSendsAnyway ==
    /\ hpc = "token"
    /\ pc[1] = "done"
    /\ Return(1)
    /\ hpc' = "completion"
    /\ completions' = completions + 1
    /\ gen' = [gen EXCEPT !.token = result[1].token]
    /\ log' = log \cup CompletionStartLog(result[1].token)
    /\ UNCHANGED <<clientID, gatewayOK, request, genReq, cancelled,
                   startExchanges, response, textVars, rateVars>>

\* GenerateLyrics after GetAccessToken returned: on an error it returns and
\* the handler answers 500; else it builds the completion request, and
\* where that fails it returns and the handler writes its Error record and
\* answers 500; else it writes its Debug record and sends the request
TokenReturned ==
    /\ hpc = "token"
    /\ pc[1] = "done"
    /\ Return(1)
    /\ IF result[1].kind = "error"
       THEN /\ gen' = GenError(gen, "token", result[1].err, "")
            /\ response' = FailureResponse(gen')
            /\ hpc' = "responded"
            /\ log' = log \cup TokenFailureLog(result[1])
            /\ UNCHANGED completions
       ELSE IF ~gatewayOK
       THEN /\ gen' = [GenError(gen, "build", "create_failed", "")
                         EXCEPT !.token = result[1].token]
            /\ response' = FailureResponse(gen')
            /\ hpc' = "responded"
            /\ log' = log \cup HandlerFailureLog(NoResponse, NoCompletion)
            /\ UNCHANGED completions
       ELSE /\ hpc' = "completion"
            /\ completions' = completions + 1
            /\ gen' = [gen EXCEPT !.token = result[1].token]
            /\ log' = log \cup CompletionStartLog(result[1].token)
            /\ UNCHANGED response
    /\ UNCHANGED <<clientID, gatewayOK, request, genReq, cancelled,
                   startExchanges, textVars, rateVars>>

\* GenerateLyrics from httpClient.Do on: the answer to the completion call
\* is checked, the text of the first choice is parsed and counted, the
\* records of the outcome are written, and the handler writes the response
CompleteCall(service, cr, id) ==
    /\ hpc = "completion"
    /\ ContextAllows(cancelled # "no", cr.net)
    /\ hpc' = "responded"
    /\ IF CompletionOutcome(cr) = "ok"
       THEN /\ gen' = [gen EXCEPT !.kind = "envelope", !.cresp = cr]
            /\ response' = HTTPResponse(StatusOK, "", <<>>,
                                        Envelope(genReq, cr.choices[1], id, now))
       ELSE /\ gen' = [GenError(gen, "completion", CompletionOutcome(cr), cr.detail)
                         EXCEPT !.cresp = cr]
            /\ response' = FailureResponse(gen')
    /\ log' = log \cup CompletionLog(service, cr)
    /\ UNCHANGED <<clientID, gatewayOK, request, genReq, cancelled,
                   startExchanges, completions, oauthVars, textVars, rateVars>>

\* the service that calls the gateway with a token of the OAuthClient
CompletionComplete(cr, id) == CompleteCall("gateway", cr, id)

(***************************************************************************)
(* Spec: NumCallers concurrent callers of GetAccessToken on one            *)
(* OAuthClient, any endpoint answer to each exchange.                      *)
(***************************************************************************)
Init ==
    /\ OAuthIdle
    /\ tokenEndpointOK \in BOOLEAN
    /\ TextIdle
    /\ HandlerIdle
    /\ clientID = PlainClientID
    /\ gatewayOK = TRUE

Next ==
    \/ \E c \in Callers :
          calls < MaxCalls /\ RLock(c) /\ UNCHANGED <<textVars, reqVars, rateVars>>
    \/ \E c \in Callers : ReadCheck(c) /\ UNCHANGED <<textVars, reqVars, rateVars>>
    \/ \E c \in Callers : Lock(c) /\ UNCHANGED <<textVars, reqVars, rateVars>>
    \/ \E c \in Callers : DoubleCheck(c) /\ UNCHANGED <<textVars, reqVars, rateVars>>
    \/ \E c \in Callers : \E resp \in SampleResponses :
          ExchangeComplete(c, resp) /\ UNCHANGED <<textVars, reqVars, rateVars>>
    \/ \E c \in Callers : Return(c) /\ UNCHANGED <<textVars, reqVars, rateVars>>
    \/ Tick /\ UNCHANGED <<textVars, reqVars, rateVars>>

Spec == Init /\ [][Next]_vars

(***************************************************************************)
(* SpecExchange: one caller of GetAccessToken, every answer of Responses   *)
(* to each exchange.                                                       *)
(***************************************************************************)
NextExchange ==
    \/ calls < MaxCalls /\ RLock(1) /\ UNCHANGED <<textVars, reqVars, rateVars>>
    \/ ReadCheck(1) /\ UNCHANGED <<textVars, reqVars, rateVars>>
    \/ Lock(1) /\ UNCHANGED <<textVars, reqVars, rateVars>>
    \/ DoubleCheck(1) /\ UNCHANGED <<textVars, reqVars, rateVars>>
    \/ \E resp \in Responses : ExchangeComplete(1, resp) /\ UNCHANGED <<textVars, reqVars, rateVars>>
    \/ Return(1) /\ UNCHANGED <<textVars, reqVars, rateVars>>
    \/ Tick /\ UNCHANGED <<textVars, reqVars, rateVars>>

SpecExchange == Init /\ [][NextExchange]_vars

(***************************************************************************)
(* SpecText: parseLyrics and countWords on every text of Texts.            *)
(***************************************************************************)
InitText ==
    /\ OAuthIdle
    /\ tokenEndpointOK = TRUE
    /\ text \in Texts
    /\ lyrics = NoLyrics
    /\ wordCount = 0
    /\ applied = {}
    /\ HandlerIdle
    /\ clientID = PlainClientID
    /\ gatewayOK = TRUE

NextText ==
    \/ ParseLyrics /\ UNCHANGED <<oauthVars, reqVars, rateVars>>
    \/ CountWords /\ UNCHANGED <<oauthVars, reqVars, rateVars>>

SpecText == InitText /\ [][NextText]_vars

(***************************************************************************)
(* The requests of the model.  BaseRequest is the "Valid request" of       *)
(* TestGenerateLyricsValidation; the others differ from it in the          *)
(* keywords, in genre, emotion and language, or in the structure.          *)
(***************************************************************************)
BaseRequest ==
    Request(<<<<"l", "o", "v", "e">>, <<"s", "u", "n", "s", "e", "t">>>>,
            <<"p", "o", "p">>, <<"h", "a", "p", "p", "y">>,
            <<"e", "n", "g", "l", "i", "s", "h">>, 2, TRUE, FALSE)

\* 0 to MaxKeywords + 1 keywords, and lists that hold an empty keyword
KeywordLists ==
    {[i \in 1..n |-> <<"k">>] : n \in 0..(MaxKeywords + 1)}
    \cup {<<<<>>>>, <<<<"l", "o", "v", "e">>, <<>>>>, BaseRequest.keywords}

\* every valid genre, a genre in upper and in mixed case, one that is not
\* in the set, and none
GenreValues ==
    ValidGenres \cup {<<"P", "O", "P">>, <<"P", "o", "p">>, <<"R", "Ο", "C", "K">>,
                       <<"i", "n", "v", "a", "l", "i", "d">>, <<>>}

EmotionValues ==
    {<<"h", "a", "p", "p", "y">>, <<"H", "A", "P", "P", "Y">>, <<"i", "n", "v", "a", "l", "i", "d">>, <<>>}

LanguageValues ==
    {<<"e", "n", "g", "l", "i", "s", "h">>,
     <<"E", "n", "g", "l", "i", "s", "h">>,
     <<"i", "n", "v", "a", "l", "i", "d">>, <<>>}

Requests ==
    {[BaseRequest EXCEPT !.keywords = k] : k \in KeywordLists}
    \cup {[BaseRequest EXCEPT !.genre = g, !.emotion = e, !.language = l] :
             g \in GenreValues, e \in EmotionValues, l \in LanguageValues}
    \cup {[BaseRequest EXCEPT !.structure =
                                 [verses |-> v, chorus |-> c, bridge |-> b]] :
             v \in 0..(MaxVerses + 1), c \in BOOLEAN, b \in BOOLEAN}

\* the request of the README's "Simple Pop Song": no structure
SimpleRequest ==
    Request(<<<<"s", "u", "m", "m", "e", "r">>, <<"f", "r", "e", "e", "d", "o", "m">>,
              <<"y", "o", "u", "t", "h">>>>,
            <<"p", "o", "p">>, <<"h", "a", "p", "p", "y">>,
            <<"e", "n", "g", "l", "i", "s", "h">>, 0, FALSE, FALSE)

\* the requests tried against every answer of the gateway
SampleRequests ==
    {BaseRequest, SimpleRequest,
     [BaseRequest EXCEPT !.genre = <<"P", "o", "p">>, !.emotion = <<"H", "A", "P", "P", "Y">>,
                         !.structure.chorus = FALSE],
     [BaseRequest EXCEPT !.language = <<"i", "n", "v", "a", "l", "i", "d">>]}

\* a good answer and a bad answer of the token endpoint and of the gateway,
\* and a call that fails (as a call does whose context is cancelled)
FewResponses ==
    {Response("ok", TRUE, 200, "", "t1", Int64(3600)),
     Response("ok", TRUE, 401, "invalid_client", "", Int64(0)),
     Response("doErr", FALSE, 0, "", "", Int64(0))}

FewCompletions ==
    {CompletionResponse("ok", TRUE, 200, FALSE, "", <<<<"l", "a", " ", "l", "a">>>>),
     CompletionResponse("doErr", FALSE, 0, FALSE, "d1", <<>>)}

(***************************************************************************)
(* SpecValidate: the handler on one request, any of Requests, a good and   *)
(* a bad answer to each outbound call.                                     *)
(***************************************************************************)
InitValidate ==
    /\ OAuthIdle
    /\ tokenEndpointOK = TRUE
    /\ TextIdle
    /\ HandlerIdle
    /\ clientID = PlainClientID
    /\ gatewayOK = TRUE

NextValidate ==
    \/ \E r \in Requests : \E order \in SampleOrders(Len(OptionKeys(r))) :
          hpc = "idle" /\ Receive(r, order)
    \/ AcquireRLock
    \/ AcquireReadCheck
    \/ AcquireLock
    \/ AcquireDoubleCheck
    \/ \E resp \in FewResponses : AcquireExchangeComplete(resp)
    \/ TokenReturned
    \/ \E cr \in FewCompletions : CompletionComplete(cr, "uuid-a")

SpecValidate == InitValidate /\ [][NextValidate]_vars

(***************************************************************************)
(* SpecRequest: the handler on the requests of SampleRequests, every       *)
(* answer of SampleResponses to a token exchange and of                    *)
(* CompletionResponses to a completion call, and the cancellation of the   *)
(* inbound request.                                                        *)
(***************************************************************************)
InitRequest ==
    /\ OAuthIdle
    /\ tokenEndpointOK \in BOOLEAN
    /\ TextIdle
    /\ HandlerIdle
    /\ clientID = PlainClientID
    /\ gatewayOK \in BOOLEAN

NextRequest ==
    \/ \E r \in SampleRequests : \E order \in SampleOrders(Len(OptionKeys(r))) :
          Receive(r, order)
    \/ AcquireRLock
    \/ AcquireReadCheck
    \/ AcquireLock
    \/ AcquireDoubleCheck
    \/ \E resp \in SampleResponses : AcquireExchangeComplete(resp)
    \/ TokenReturned
    \/ \E cr \in CompletionResponses : \E id \in UUIDs : CompletionComplete(cr, id)
    \/ Cancel

SpecRequest == InitRequest /\ [][NextRequest]_vars

(***************************************************************************)
(* SpecLog: the handler on BaseRequest for every client id of ClientIDs    *)
(* and every answer of Responses to a token exchange.                      *)
(***************************************************************************)
InitLog ==
    /\ OAuthIdle
    /\ tokenEndpointOK \in BOOLEAN
    /\ TextIdle
    /\ HandlerIdle
    /\ clientID \in ClientIDs
    /\ gatewayOK = TRUE

NextLog ==
    \/ Receive(BaseRequest, <<>>)
    \/ AcquireRLock
    \/ AcquireReadCheck
    \/ AcquireLock
    \/ AcquireDoubleCheck
    \/ \E resp \in Responses : AcquireExchangeComplete(resp)
    \/ TokenReturned
    \/ \E cr \in FewCompletions : CompletionComplete(cr, "uuid-a")

SpecLog == InitLog /\ [][NextLog]_vars

(***************************************************************************)
(* SpecLive: the callers of Spec, a good and a bad answer to each          *)
(* exchange, under fair scheduling.  A goroutine that can run does run     *)
(* (weak fairness of the steps after RLock); sync.RWMutex hands the write  *)
(* lock to a waiting writer (strong fairness of Lock); and httpClient has  *)
(* a Timeout of 30 s, so every exchange gets an answer (weak fairness of   *)
(* ExchangeComplete).  Nothing makes a caller start a call, take its       *)
(* result, or the clock tick.                                              *)
(***************************************************************************)
otherVars == <<textVars, reqVars, rateVars>>

NextLive ==
    \/ \E c \in Callers : calls < MaxCalls /\ RLock(c) /\ UNCHANGED otherVars
    \/ \E c \in Callers : ReadCheck(c) /\ UNCHANGED otherVars
    \/ \E c \in Callers : Lock(c) /\ UNCHANGED otherVars
    \/ \E c \in Callers : DoubleCheck(c) /\ UNCHANGED otherVars
    \/ \E c \in Callers : \E resp \in FewResponses :
          ExchangeComplete(c, resp) /\ UNCHANGED otherVars
    \/ \E c \in Callers : Return(c) /\ UNCHANGED otherVars
    \/ Tick /\ UNCHANGED otherVars

FairLive ==
    \A c \in Callers :
        /\ WF_vars(ReadCheck(c) /\ UNCHANGED otherVars)
        /\ SF_vars(Lock(c) /\ UNCHANGED otherVars)
        /\ WF_vars(DoubleCheck(c) /\ UNCHANGED otherVars)
        /\ WF_vars(\E resp \in FewResponses :
                      ExchangeComplete(c, resp) /\ UNCHANGED otherVars)

SpecLive == Init /\ [][NextLive]_vars /\ FairLive

(***************************************************************************)
(* SpecRate: the service that calls the completion API with its API key,   *)
(* on requests of the clients of Clients that arrive within one second: a  *)
(* request that passes validation and one that does not, a base URL that   *)
(* gives a request and one that does not, a good and a bad answer to each  *)
(* completion call.                                                        *)
(***************************************************************************)
RateRequests ==
    {BaseRequest, [BaseRequest EXCEPT !.language = <<"i", "n", "v", "a", "l", "i", "d">>]}

InitRate ==
    /\ OAuthIdle
    /\ tokenEndpointOK = TRUE
    /\ TextIdle
    /\ HandlerIdle
    /\ clientID = PlainClientID
    /\ gatewayOK \in BOOLEAN

NextRate ==
    \/ \E k \in Clients : \E r \in RateRequests :
          \E order \in SampleOrders(Len(OptionKeys(r))) : ReceiveDirect(k, r, order)
    \/ \E cr \in FewCompletions : CompleteCall("direct", cr, "uuid-a")

SpecRate == InitRate /\ [][NextRate]_vars

(***************************************************************************)
(* The service that drives the openai-go client: GenerateLyrics calls      *)
(* Chat.Completions.New, and the client sends each attempt through         *)
(* http.Client.Do and so through OAuthTransport.RoundTrip, which fetches   *)
(* the token.  NewLyricsService builds the client with WithBaseURL,        *)
(* WithHTTPClient and WithAPIKey only, so the client keeps its default of  *)
(* two retries: it sends again after an attempt that got no response       *)
(* (RoundTrip returned an error) or a response with status 408, 409, 429   *)
(* or 500 and above, and not once the context of the request is done.      *)
(***************************************************************************)
\* the retries of the client that NewLyricsService builds: it sets no
\* option.WithMaxRetries, and the default of openai-go is 2
SDKMaxRetries == 2

\* the statuses below 500 after which the client sends again
SDKRetryStatuses == {408, 409, 429}

\* whether the client sends again after an attempt that ended with cr;
\* NoCompletion stands for a round trip that failed before it sent
SDKShouldRetry(cr) ==
    IF cr.net \in {"none", "doErr"} THEN TRUE
    ELSE cr.status \in SDKRetryStatuses \/ cr.status >= StatusInternalServerError

\* what Chat.Completions.New returns for the last attempt: an error for an
\* attempt without response, for a status of 400 and above, and for a body
\* that cannot be read or decoded; else the completion, whose choices
\* GenerateLyrics checks.  An error object in a body with status 200 is not
\* looked at.
SDKOutcome(cr) ==
    IF cr.net \in {"none", "doErr"} THEN "request_failed"
    ELSE IF cr.status >= StatusBadRequest THEN "bad_status"
    ELSE IF cr.net = "readErr" THEN "read_failed"
    ELSE IF ~cr.json THEN "parse_failed"
    ELSE IF Len(cr.choices) = 0 THEN "no_choices"
    ELSE "ok"

\* GenerateLyrics and the handler: the records written once
\* Chat.Completions.New has returned
SDKLog(g, outcome) ==
    IF outcome = "ok"
    THEN {CompletionLogRecord(CompletionSuccessMessage("sdk"), "response_id", g.cresp)}
    ELSE IF outcome = "no_choices"
    THEN {LogRecord("OpenAI returned no choices", "", <<>>, NoResponse)}
            \cup HandlerFailureLog(NoResponse, NoCompletion)
    ELSE {[LogRecord("OpenAI SDK request failed", "error", <<>>, g.tokenErr)
              EXCEPT !.gateway = g.cresp]}
            \cup HandlerFailureLog(g.tokenErr, g.cresp)

\* the handler up to the first round trip: it binds and validates the
\* request as Receive does, GenerateLyrics builds the prompt, writes its
\* Debug record and calls Chat.Completions.New, and the client starts its
\* first attempt, whose RoundTrip calls GetAccessToken; with a base URL
\* that gives no request the call returns an error without a round trip
ReceiveSDK(r, order) ==
    /\ hpc \in {"idle", "responded"}
    /\ calls < MaxCalls
    /\ IsOrder(order, Len(OptionKeys(r)))
    /\ request' = r
    /\ cancelled' = "no"
    /\ startExchanges' = exchanges
    /\ completions' = 0
    /\ IF Verdict(r) = "accepted" /\ gatewayOK
       THEN /\ genReq' = WithDefaults(r)
            /\ hpc' = "token"
            /\ trips' = 1
            /\ gen' = NoGen
            /\ response' = NoHTTPResponse
            /\ log' = SDKStartLog
       ELSE IF Verdict(r) = "accepted"
       THEN /\ genReq' = WithDefaults(r)
            /\ hpc' = "responded"
            /\ trips' = 0
            /\ gen' = GenError(NoGen, "build", "create_failed", "")
            /\ response' = FailureResponse(gen')
            /\ log' = SDKStartLog \cup SDKLog(NoGen, "request_failed")
       ELSE /\ genReq' = NoRequest
            /\ hpc' = "responded"
            /\ trips' = 0
            /\ gen' = NoGen
            /\ response' = Rejection(r, order)
            /\ log' = {}
    /\ UNCHANGED <<clientID, gatewayOK, oauthVars, textVars, served>>

\* OAuthTransport.RoundTrip after GetAccessToken returned: on an error it
\* writes its Error record and returns the error, so the attempt has no
\* response; else it sets the Authorization header, writes its Debug
\* record and hands the request to the base transport
RoundTrip ==
    /\ hpc = "token"
    /\ pc[1] = "done"
    /\ Return(1)
    /\ IF result[1].kind = "error"
       THEN /\ hpc' = "tripped"
            /\ gen' = [gen EXCEPT !.stage = "token", !.err = result[1].err,
                                  !.tokenErr = ErrorBody(result[1]),
                                  !.cresp = NoCompletion]
            /\ log' = log \cup TransportFailureLog(result[1])
            /\ UNCHANGED completions
       ELSE /\ hpc' = "completion"
            /\ completions' = completions + 1
            /\ gen' = [gen EXCEPT !.stage = "", !.err = "",
                                  !.tokenErr = NoResponse,
                                  !.token = result[1].token]
            /\ log' = log \cup TransportLog(result[1].token)
    /\ UNCHANGED <<clientID, gatewayOK, request, genReq, cancelled,
                   startExchanges, response, textVars, rateVars>>

\* the answer to the request the base transport sent, which carries the
\* context of the inbound request
RoundTripAnswered(cr) ==
    /\ hpc = "completion"
    /\ ContextAllows(cancelled # "no", cr.net)
    /\ hpc' = "tripped"
    /\ gen' = [gen EXCEPT !.cresp = cr]
    /\ UNCHANGED <<clientID, gatewayOK, request, genReq, cancelled,
                   startExchanges, completions, response, log, oauthVars,
                   textVars, rateVars>>

\* the client sends the request again: the next attempt goes through
\* RoundTrip, which calls GetAccessToken again
SDKRetry ==
    /\ hpc = "tripped"
    /\ cancelled = "no"
    /\ SDKShouldRetry(gen.cresp)
    /\ trips <= SDKMaxRetries
    /\ hpc' = "token"
    /\ trips' = trips + 1
    /\ UNCHANGED <<reqVarsButHpc, oauthVars, textVars, served>>

\* Chat.Completions.New returns after the last attempt, GenerateLyrics
\* checks the error and the choices and assembles the envelope, and the
\* handler writes the response
SDKReturn(id) ==
    /\ hpc = "tripped"
    /\ cancelled # "no" \/ ~SDKShouldRetry(gen.cresp) \/ trips > SDKMaxRetries
    /\ hpc' = "responded"
    /\ IF SDKOutcome(gen.cresp) = "ok"
       THEN /\ gen' = [gen EXCEPT !.kind = "envelope"]
            /\ response' = HTTPResponse(StatusOK, "", <<>>,
                                        Envelope(genReq, gen.cresp.choices[1], id, now))
       ELSE /\ gen' = GenError(gen,
                               IF gen.cresp = NoCompletion THEN "token" ELSE "completion",
                               IF gen.cresp = NoCompletion THEN gen.err
                               ELSE SDKOutcome(gen.cresp),
                               gen.cresp.detail)
            /\ response' = FailureResponse(gen')
    /\ log' = log \cup SDKLog(gen, SDKOutcome(gen.cresp))
    /\ UNCHANGED <<clientID, gatewayOK, request, genReq, cancelled,
                   startExchanges, completions, oauthVars, textVars, rateVars>>

(***************************************************************************)
(* SpecSDK: the handler of that service on a request that passes           *)
(* validation and one that does not, a good and a bad answer to each token *)
(* exchange, the answers of SDKCompletions to each attempt, and the        *)
(* cancellation of the inbound request.                                    *)
(***************************************************************************)
SDKCompletions ==
    {CompletionResponse("ok", TRUE, 200, FALSE, "", <<<<"l", "a", " ", "l", "a">>>>),
     CompletionResponse("ok", TRUE, 200, FALSE, "", <<>>),
     CompletionResponse("ok", TRUE, 401, TRUE, "d1", <<>>),
     CompletionResponse("ok", TRUE, 500, TRUE, "d1", <<>>),
     CompletionResponse("doErr", FALSE, 0, FALSE, "d1", <<>>)}

InitSDK ==
    /\ OAuthIdle
    /\ tokenEndpointOK \in BOOLEAN
    /\ TextIdle
    /\ HandlerIdle
    /\ clientID = PlainClientID
    /\ gatewayOK \in BOOLEAN

NextSDK ==
    \/ \E r \in RateRequests : \E order \in SampleOrders(Len(OptionKeys(r))) :
          ReceiveSDK(r, order)
    \/ AcquireRLock
    \/ AcquireReadCheck
    \/ AcquireLock
    \/ AcquireDoubleCheck
    \/ \E resp \in FewResponses : AcquireExchangeComplete(resp)
    \/ RoundTrip
    \/ \E cr \in SDKCompletions : RoundTripAnswered(cr)
    \/ SDKRetry
    \/ SDKReturn("uuid-a")
    \/ Cancel

SpecSDK == InitSDK /\ [][NextSDK]_vars

(***************************************************************************)
(* The service that calls the completion API through the go-openai client  *)
(* with its API key: its handler validates as the others do, GenerateLyrics*)
(* builds the prompt and calls CreateChatCompletion, which sends one       *)
(* request, and the only record is the handler's log.Printf of the error.  *)
(***************************************************************************)
\* the handler on a request of client k, up to the completion call
ReceiveLibrary(k, r, order) ==
    /\ hpc \in {"idle", "responded"}
    /\ served[k] < MaxServed
    /\ IsOrder(order, Len(OptionKeys(r)))
    /\ request' = r
    /\ cancelled' = "no"
    /\ startExchanges' = exchanges
    /\ gen' = NoGen
    /\ log' = {}
    /\ IF Verdict(r) = "accepted"
       THEN /\ genReq' = WithDefaults(r)
            /\ hpc' = "library"
            /\ completions' = 1
            /\ served' = [served EXCEPT ![k] = @ + 1]
            /\ response' = NoHTTPResponse
       ELSE /\ genReq' = NoRequest
            /\ hpc' = "responded"
            /\ completions' = 0
            /\ response' = Rejection(r, order)
            /\ UNCHANGED served
    /\ UNCHANGED <<clientID, gatewayOK, oauthVars, textVars, trips>>

\* what CreateChatCompletion and the check of the choices give: an error
\* for a call without answer, for a status below 200 or of 400 and above,
\* and for a body that cannot be read or decoded; else the completion.  An
\* error object in a body with status 200 is not looked at.
LibraryOutcome(cr) ==
    IF cr.net \in {"none", "doErr"} THEN "request_failed"
    ELSE IF cr.status < StatusOK \/ cr.status >= StatusBadRequest THEN "bad_status"
    ELSE IF cr.net = "readErr" THEN "read_failed"
    ELSE IF ~cr.json THEN "parse_failed"
    ELSE IF Len(cr.choices) = 0 THEN "no_choices"
    ELSE "ok"

\* CreateChatCompletion returns: GenerateLyrics checks the error and the
\* choices and assembles the envelope, and the handler logs the error and
\* writes the response
LibraryReturn(cr, id) ==
    /\ hpc = "library"
    /\ ContextAllows(cancelled # "no", cr.net)
    /\ hpc' = "responded"
    /\ IF LibraryOutcome(cr) = "ok"
       THEN /\ gen' = [gen EXCEPT !.kind = "envelope", !.cresp = cr]
            /\ response' = HTTPResponse(StatusOK, "", <<>>,
                                        Envelope(genReq, cr.choices[1], id, now))
            /\ UNCHANGED log
       ELSE /\ gen' = [GenError(gen, "completion", LibraryOutcome(cr), cr.detail)
                         EXCEPT !.cresp = cr]
            /\ response' = FailureResponse(gen')
            /\ log' = log \cup {CompletionLogRecord("Error generating lyrics: %v",
                                                     "error", cr)}
    /\ UNCHANGED <<clientID, gatewayOK, request, genReq, cancelled,
                   startExchanges, completions, oauthVars, textVars, rateVars>>

(***************************************************************************)
(* SpecLibrary: that service on the requests and the clients of SpecRate   *)
(* and the answers of SDKCompletions, and the cancellation of the inbound  *)
(* request.                                                                *)
(***************************************************************************)
NextLibrary ==
    \/ \E k \in Clients : \E r \in RateRequests :
          \E order \in SampleOrders(Len(OptionKeys(r))) : ReceiveLibrary(k, r, order)
    \/ \E cr \in SDKCompletions : LibraryReturn(cr, "uuid-a")
    \/ Cancel

SpecLibrary == InitRate /\ [][NextLibrary]_vars

(***************************************************************************)
(* The token cache: claims C1 to C6.                                       *)
(***************************************************************************)
Returned(c) == pc[c] = "done"
GotToken(c) == Returned(c) /\ result[c].kind = "token"

\* time t is more than 30 seconds before the expiry
OutsideBuffer(t, expiry) == Before(Instant(t + 30), expiry)

\* what the call saw at its last check of the cache: no token, or one that
\* is not more than 30 s from its expiry
SawStale(r) == r.seenToken = NoToken \/ ~OutsideBuffer(r.seenAt, r.seenExp)

\* the nanoseconds of n seconds, exactly
Nanoseconds(n) == Times(Times(Times(Widen(n, TimeLimbs), 1000), 1000), 1000)

\* the nanoseconds of n seconds fit a Duration: n is at most 9223372036
FitsDuration(n) == ~Less(Decimal(<<9, 2, 2, 3, 3, 7, 2, 0, 3, 6>>), n)

\* the nanoseconds of n seconds, of which the lowest 64 bits are kept
WrappedNanoseconds(n) == Widen(SubSeq(Nanoseconds(n), 1, Int64Limbs), TimeLimbs)

\* C1 as stated: every token GetAccessToken returns, on the fast path, on the
\* double-check path or after a fresh exchange, is more than 30 seconds from
\* its expiry at the moment of return.
C1_ReturnedTokenOutsideBuffer ==
    \A c \in Callers : GotToken(c) => OutsideBuffer(result[c].at, result[c].exp)

\* C1 amended: a token returned from the cache (fast path or double-check
\* path) is more than 30 seconds from its expiry at return.  A token returned
\* after a fresh exchange is more than 30 seconds from its expiry exactly when
\* the reported expires_in is at most 0 (the default hour applies) or from
\* 31 to 9223372036.  Above 9223372036 the lifetime in nanoseconds wraps
\* around 64 bits, and the token is more than 30 seconds from its expiry
\* exactly when the wrapped lifetime is more than 30 seconds: with
\* expires_in = 9223372037 it is returned with an expiry before the time of
\* the return.
C1_CachedTokenOutsideBuffer ==
    \A c \in Callers : GotToken(c) =>
        LET r == result[c]
            e == r.resp.expires_in
        IN  /\ r.path \in {"fast", "dc"} => OutsideBuffer(r.at, r.exp)
            /\ (r.path = "fresh" /\ FitsDuration(e)) =>
                  (OutsideBuffer(r.at, r.exp)
                      <=> (~Less(Int64(0), e) \/ Less(Int64(30), e)))
            /\ (r.path = "fresh" /\ ~FitsDuration(e)) =>
                  (OutsideBuffer(r.at, r.exp)
                      <=> Less(Nanoseconds(Int64(30)), WrappedNanoseconds(e)))
            /\ (r.path = "fresh" /\ e = Decimal(<<9, 2, 2, 3, 3, 7, 2, 0, 3, 7>>)) =>
                  Before(r.exp, Instant(r.at))

\* C1 witness: a token reported with expires_in = 9223372037 came back from
\* its exchange with an expiry before the time of the return, and the next
\* call, which found it stale, came back from its own exchange with a token
\* that lasts 31 seconds.
C1_Witness ==
    \E c, d \in Callers :
        /\ GotToken(c) /\ result[c].path = "fresh"
        /\ ~FitsDuration(result[c].resp.expires_in)
        /\ Before(result[c].exp, Instant(result[c].at))
        /\ d # c /\ GotToken(d) /\ result[d].path = "fresh"
        /\ result[d].seenToken = result[c].token
        /\ result[d].exp = Instant(result[d].at + 31)

\* C2 as stated: callers that all miss the cache on the read-locked check
\* while their calls overlap send one token exchange to the token endpoint
\* in total.
C2_OneExchangePerCohort ==
    (tokenEndpointOK /\ Cardinality(cohort) >= 2) => cohortSent <= 1

\* C2 amended: among callers whose cache misses overlap, a further exchange
\* is started only after the previous one failed, or after the token it
\* stored is no longer more than 30 seconds from its expiry; while a stored
\* token is valid the double-check returns it and no exchange is started.
C2_NextExchangeOnlyAfterFailureOrExpiry ==
    [][(cohortSent' = cohortSent + 1 /\ cohortSent >= 1) =>
          \/ lastExchange = "fail"
          \/ lastExchange = "ok" /\ ~OutsideBuffer(now, expiresAt)]_vars

\* C2 witness: two callers missed together, one exchange was started, and
\* the other caller got the token from its double-check.
C2_Witness ==
    /\ Cardinality(cohort) >= 2
    /\ cohortSent = 1
    /\ \E c, d \in cohort :
          /\ GotToken(c) /\ result[c].path = "fresh"
          /\ GotToken(d) /\ result[d].path = "dc"
          /\ result[d].token = result[c].token

\* C3: at most one token exchange is in flight, and it runs under the write
\* lock: its caller holds the lock and nobody holds a read lock.
C3_OneExchangeInFlight ==
    /\ Cardinality({c \in Callers : pc[c] = "inflight"}) <= 1
    /\ \A c \in Callers : pc[c] = "inflight" => writer = c /\ readers = 0

\* C3 witness: an exchange is in flight while another caller that missed the
\* cache waits for the write lock.
C3_Witness ==
    \E c, d \in Callers : pc[c] = "inflight" /\ pc[d] = "wantlock"

\* C4 as stated: a call sends a token exchange if and only if its last
\* check of the cache under the lock found no token or a token not more
\* than 30 seconds from its expiry; otherwise it returns the cached token it
\* saw and sends no exchange.
C4_ExchangeIffStale ==
    \A c \in Callers :
        LET r == result[c] IN
        /\ pc[c] = "inflight" => r.started = 1 /\ SawStale(r)
        /\ Returned(c) =>
              /\ r.started = 1 <=> SawStale(r)
              /\ ~SawStale(r) =>
                    r.kind = "token" /\ r.token = r.seenToken /\ r.started = 0
        /\ exchanges <= calls

\* C4 amended: a call sends a token exchange if and only if its last check
\* of the cache under the lock found no token or a token not more than 30
\* seconds from its expiry, and the token request can be built from the
\* token endpoint URL; where it cannot, the call returns an error and no
\* token and sends nothing.  After a check that found a token more than 30
\* seconds from its expiry it returns the cached token it saw and sends no
\* exchange.
C4_ExchangeIffStaleAndBuilt ==
    \A c \in Callers :
        LET r == result[c] IN
        /\ pc[c] = "inflight" => r.started = 1 /\ SawStale(r) /\ tokenEndpointOK
        /\ Returned(c) =>
              /\ r.started = 1 <=> (SawStale(r) /\ tokenEndpointOK)
              /\ (SawStale(r) /\ ~tokenEndpointOK) =>
                    r.kind = "error" /\ r.token = NoToken /\ r.started = 0
              /\ ~SawStale(r) =>
                    r.kind = "token" /\ r.token = r.seenToken /\ r.started = 0
        /\ exchanges <= calls
        /\ ~tokenEndpointOK => exchanges = 0

\* C4 witness: two calls returned the same token and one exchange was
\* sent in total.
C4_Witness ==
    \E c, d \in Callers :
        /\ GotToken(c) /\ result[c].path = "fresh"
        /\ GotToken(d) /\ result[d].path = "fast"
        /\ result[d].token = result[c].token
        /\ exchanges = 1

\* the later of two numbers of seconds
Max(a, b) == IF Less(a, b) THEN b ELSE a

\* the call returned a token it had just stored
StoredToken(c) == GotToken(c) /\ result[c].path = "fresh"

\* C5 as stated: after a successful exchange the cached expiry is the time
\* of storing plus max(expires_in, 3600) seconds.
C5_ExpiryIsMaxOfDefault ==
    \A c \in Callers : StoredToken(c) =>
        expiresAt = Plus(Instant(result[c].at),
                         Nanoseconds(Max(result[c].resp.expires_in, Int64(3600))))

\* C5 amended: after a successful exchange the cached expiry is the time of
\* storing plus expires_in seconds when expires_in is positive (and at most
\* 9223372036, so that its nanoseconds fit a Duration), and plus 3600
\* seconds when it is zero or negative.
C5_ExpiryIsExpiresInOrDefault ==
    \A c \in Callers : StoredToken(c) =>
        LET e == result[c].resp.expires_in IN
        /\ (Less(Int64(0), e) /\ FitsDuration(e)) =>
              expiresAt = Plus(Instant(result[c].at), Nanoseconds(e))
        /\ ~Less(Int64(0), e) =>
              expiresAt = Plus(Instant(result[c].at), Nanoseconds(Int64(3600)))
        /\ accessToken = result[c].resp.access_token

\* C5 witness: a token reported with expires_in = 0 was stored.
C5_Witness ==
    \E c \in Callers : StoredToken(c) /\ result[c].resp.expires_in = Int64(0)

\* C6: a token exchange stores and returns a token if and only if the HTTP
\* call completed, the body parsed, the error field is empty, the status is
\* 200 and access_token is not empty; otherwise the call returns an error and
\* no token, and the cache keeps what it held.
C6_ExchangeSucceedsIff ==
    \A c \in Callers : (Returned(c) /\ result[c].requested = 1) =>
        LET r == result[c]
            good == /\ r.resp.net = "ok"
                    /\ r.resp.json
                    /\ r.resp.error = ""
                    /\ r.resp.status = 200
                    /\ r.resp.access_token # ""
        IN  /\ r.kind = "token" <=> good
            /\ good => r.token = r.resp.access_token /\ accessToken = r.token
            /\ ~good => /\ r.kind = "error" /\ r.token = "" /\ r.err # ""
                        /\ accessToken = r.seenToken /\ expiresAt = r.seenExp

\* C6 witness: the endpoint answered 401 with a body that carries a token
\* and no error field, and the call returned an error.
C6_Witness ==
    \E c \in Callers :
        /\ Returned(c) /\ result[c].kind = "error"
        /\ result[c].resp.status = 401
        /\ result[c].resp.error = ""
        /\ result[c].resp.access_token # ""

(***************************************************************************)
(* parseLyrics and countWords: claims C7 to C10.                           *)
(***************************************************************************)
Parsed == "parseLyrics" \in applied
Counted == "countWords" \in applied

\* the lines of a text, each trimmed of surrounding whitespace
TrimmedLines(input) ==
    LET lines == Split(input, NL) IN [i \in 1..Len(lines) |-> TrimSpace(lines[i])]

\* the lines that are title headers: bracketed, "title:" first inside the
\* brackets, in any letter case
TitleHeaders(input) ==
    LET tl == TrimmedLines(input) IN
    {i \in 1..Len(tl) :
        IsHeaderLine(tl[i]) /\ HasPrefix(ToLower(Trim(tl[i], BracketChars)), TitlePrefix)}

\* X of a [Title: X] header, as written, trimmed
TitleAsWritten(line) ==
    LET inner == Trim(line, BracketChars)
    IN  TrimSpace(SubSeq(inner, Len(TitlePrefix) + 1, Len(inner)))

\* C7: for a [Title: X] header parseLyrics sets the title to X, trimmed, in
\* the letter case of the text (the last title header of the text decides).
C7_TitleKeepsCase ==
    (Parsed /\ TitleHeaders(text) # {}) =>
        LET tl == TrimmedLines(text)
            last == CHOOSE i \in TitleHeaders(text) :
                        \A j \in TitleHeaders(text) : j <= i
        IN  lyrics.title = TitleAsWritten(tl[last])

\* The section mapping as a function of the text: the headers are the
\* bracketed lines, a header's content the non-blank lines up to the next
\* header; a header that Opens a section and has content maps its Name to
\* its content, the last header of a name deciding.
SectionsOf(input, Name(_), Opens(_)) ==
    LET tl == TrimmedLines(input)
        n == Len(tl)
        headers == {i \in 1..n : IsHeaderLine(tl[i])}
        End(i) == IF \E j \in headers : j > i
                  THEN CHOOSE j \in headers :
                           j > i /\ \A k \in headers : k > i => j <= k
                  ELSE n + 1
        Content(i) == SelectSeq(SubSeq(tl, i + 1, End(i) - 1), LAMBDA l : l # <<>>)
        filled == {i \in headers : Opens(tl[i]) /\ Len(Content(i)) > 0}
        Last(k) == CHOOSE i \in filled :
                       Name(tl[i]) = k /\ \A j \in filled : Name(tl[j]) = k => j <= i
    IN  [k \in {Name(tl[i]) : i \in filled} |-> Join(Content(Last(k)), NL)]

\* spec step 2: the bracket interior, lower-cased and trimmed
SpecPayload(line) == TrimSpace(ToLower(Trim(line, {"[", "]"})))
\* spec step 2: every header but a title header opens a section
SpecOpens(line) == ~HasPrefix(SpecPayload(line), TitlePrefix)

\* the name the code gives a header: the line without its leading and
\* trailing bracket characters, lower-cased, its inner whitespace kept
StrippedName(line) == ToLower(Trim(line, {"[", "]"}))
\* a header opens a section when its name is not empty and is no title
StrippedOpens(line) ==
    StrippedName(line) # <<>> /\ ~HasPrefix(StrippedName(line), TitlePrefix)

\* C8: when at least one section gets content, the mapping of
\* parseLyrics is that of spec steps 1-4: each non-title header with content
\* maps its lower-cased (and trimmed) bracket interior to its content lines.
C8_SectionsAsSpecSteps ==
    (/\ Parsed
     /\ DOMAIN ParsedSections(text) # {}
     /\ DOMAIN SectionsOf(text, SpecPayload, SpecOpens) # {}) =>
        lyrics.structure = SectionsOf(text, SpecPayload, SpecOpens)

\* a text without any bracketed header line
NoHeaderLine(input) ==
    \A i \in 1..Len(TrimmedLines(input)) : ~IsHeaderLine(TrimmedLines(input)[i])

\* C9: a text without any bracketed header line gives one section, under
\* "verse1", that is the text unchanged, and the title "Untitled Song".
C9_NoHeaderFallback ==
    (Parsed /\ NoHeaderLine(text)) =>
        /\ DOMAIN lyrics.structure = {DefaultKey}
        /\ lyrics.structure[DefaultKey] = text
        /\ lyrics.title = DefaultTitle

\* C9 witness: a parsed text without header that holds a blank line and a
\* line with surrounding whitespace.
C9_Witness ==
    /\ Parsed
    /\ NoHeaderLine(text)
    /\ \E i \in 1..Len(Split(text, NL)) : Split(text, NL)[i] = <<>>
    /\ \E i \in 1..Len(Split(text, NL)) :
          /\ TrimSpace(Split(text, NL)[i]) # <<>>
          /\ TrimSpace(Split(text, NL)[i]) # Split(text, NL)[i]

\* the places where a maximal run of non-whitespace characters starts
RunStarts(s) ==
    {i \in 1..Len(s) : s[i] \notin SpaceChars /\ (i = 1 \/ s[i - 1] \in SpaceChars)}

\* C10: countWords is the number of maximal runs of non-whitespace
\* characters of the text.
C10_CountWordsIsRuns ==
    Counted => wordCount = Cardinality(RunStarts(text))

\* C10 witness: two words are counted in a text that separates them by a
\* tab or a newline and holds a comma.
C10_Witness ==
    /\ Counted
    /\ wordCount = 2
    /\ \E i \in 1..Len(text) : text[i] \in {"\t", "\n"}
    /\ \E i \in 1..Len(text) : text[i] = ","
    /\ \A i \in 1..Len(text) : text[i] # " "

(***************************************************************************)
(* The validation of a request: claims C11 to C14.                         *)
(***************************************************************************)
\* the handler has taken a request
Handled == hpc # "idle"

\* the request passed every check and was handed to GenerateLyrics
PassedValidation == Handled /\ genReq # NoRequest

\* v is m in some letter case: the same length, and each character of v is
\* that of m or its upper-case letter
CaseVariant(v, m) ==
    /\ Len(v) = Len(m)
    /\ \A i \in 1..Len(v) :
          \/ v[i] = m[i]
          \/ \E j \in 1..Len(UpperCase) : UpperCase[j] = v[i] /\ LowerCase[j] = m[i]

\* v is a case variant of a member of the set
Supported(v, validSet) == \E m \in validSet : CaseVariant(v, m)

\* C11: among the requests that pass the binding, a request passes
\* validation if and only if its genre, emotion and language are each a case
\* variant of a member of ValidGenres, ValidEmotions and ValidLanguages, and
\* each of the three errors is answered exactly when that value is the first
\* one that is no case variant of a member.
C11_ValidIffLowerCasedMember ==
    (Handled /\ response.error # "invalid_request") =>
        LET g == Supported(request.genre, ValidGenres)
            e == Supported(request.emotion, ValidEmotions)
            l == Supported(request.language, ValidLanguages)
        IN  /\ PassedValidation <=> (g /\ e /\ l)
            /\ response.error = "invalid_genre" <=> ~g
            /\ response.error = "invalid_emotion" <=> (g /\ ~e)
            /\ response.error = "invalid_language" <=> (g /\ e /\ ~l)

\* C11 witness: requests with the genre "POP" and with the genre "Pop" were
\* accepted (two runs reach the two states), here the one with "POP" and the
\* emotion "HAPPY".
C11_Witness ==
    /\ PassedValidation
    /\ request.genre = <<"P", "O", "P">>
    /\ request.emotion = <<"H", "A", "P", "P", "Y">>

\* the response lists every member of the set, each once, after the prefix
ListsAll(resp, prefix, validSet) ==
    /\ resp.message = prefix
    /\ resp.options = [k \in validSet |-> 1]

\* C12: a request that passes the binding and has an unsupported genre,
\* emotion or language is answered with status 400, the error code of the
\* first unsupported field in the order genre, emotion, language, and a
\* message that lists every member of that field's valid set; it is not
\* handed to GenerateLyrics.
C12_FirstOffendingField ==
    LET g == Supported(request.genre, ValidGenres)
        e == Supported(request.emotion, ValidEmotions)
        l == Supported(request.language, ValidLanguages)
    IN  (Handled /\ BindOK(request) /\ ~(g /\ e /\ l)) =>
            /\ response.status = 400
            /\ ~PassedValidation
            /\ ~g => /\ response.error = "invalid_genre"
                     /\ ListsAll(response, GenreMessage, ValidGenres)
            /\ (g /\ ~e) => /\ response.error = "invalid_emotion"
                            /\ ListsAll(response, EmotionMessage, ValidEmotions)
            /\ (g /\ e /\ ~l) =>
                  /\ response.error = "invalid_language"
                  /\ ListsAll(response, LanguageMessage, ValidLanguages)

\* C12 witness: a request whose genre and emotion are both unsupported was
\* answered with invalid_genre.
C12_Witness ==
    /\ Handled
    /\ request.genre = <<"i", "n", "v", "a", "l", "i", "d">>
    /\ request.emotion = <<"i", "n", "v", "a", "l", "i", "d">>
    /\ request.language # <<>>
    /\ response.error = "invalid_genre"

\* 1 to 10 keywords, each a non-empty string
KeywordsValid(keywords) ==
    /\ Len(keywords) >= 1
    /\ Len(keywords) <= 10
    /\ \A i \in 1..Len(keywords) : keywords[i] # <<>>

\* C13: a request is accepted only if it carries 1 to 10 keywords, each a
\* non-empty string; a request with no keyword, more than 10 keywords or an
\* empty keyword is answered with status 400 and never reaches the prompt
\* builder.
C13_KeywordsCountedAndNonEmpty ==
    Handled =>
        /\ PassedValidation => KeywordsValid(request.keywords)
        /\ ~KeywordsValid(request.keywords) =>
              response.status = 400 /\ genReq = NoRequest

\* C14: a request with valid keywords, genre, emotion and language that
\* omits the structure (verses zero) passes validation and is handed on with
\* verses = 2 and chorus = true.
C14_OmittedStructureGetsDefaults ==
    (/\ Handled
     /\ KeywordsValid(request.keywords)
     /\ Supported(request.genre, ValidGenres)
     /\ Supported(request.emotion, ValidEmotions)
     /\ Supported(request.language, ValidLanguages)
     /\ request.structure.verses = 0) =>
        /\ PassedValidation
        /\ response.status # 400
        /\ genReq.structure.verses = 2
        /\ genReq.structure.chorus = TRUE

(***************************************************************************)
(* GenerateLyrics and the response of the handler: claims C15 to C20.      *)
(***************************************************************************)
\* the handler has written the response of a request it had accepted
Finished == hpc = "responded" /\ PassedValidation

\* the failures of the completion call that the claim lists: the call was
\* sent and failed on the network (the read of the body included), its body
\* is no JSON, the body has an error object, the status is not 200, or there
\* is no choice
ListedCompletionFailure ==
    /\ completions >= 1
    /\ gen.cresp # NoCompletion
    /\ \/ gen.cresp.net \in {"doErr", "readErr"}
       \/ ~gen.cresp.json
       \/ gen.cresp.hasError
       \/ gen.cresp.status # 200
       \/ Len(gen.cresp.choices) = 0

\* C15 as stated: GenerateLyrics returns an error and no envelope if and
\* only if the completion call fails on the network, its body is no JSON,
\* the body has an error object, the status is not 200 or there is no
\* choice; otherwise it returns an envelope.  (Stated for a service whose
\* two endpoints are well-formed URLs.)
C15_ErrorIffCompletionFails ==
    (Finished /\ tokenEndpointOK /\ gatewayOK) =>
        /\ (gen.kind = "error" /\ response.body = NoEnvelope) <=> ListedCompletionFailure
        /\ ~ListedCompletionFailure => gen.kind = "envelope"

\* C15 amended: GenerateLyrics returns an error and no envelope if and only
\* if GetAccessToken returns no token, the completion request cannot be
\* built from the gateway URL, or the completion call fails in one of the
\* listed ways; otherwise it returns an envelope whose lyrics are parsed from
\* choices[0].message.content.
C15_ErrorIffTokenOrCompletionFails ==
    Finished =>
        LET tokenFailed == gen.token = NoToken
            buildFailed == gen.token # NoToken /\ ~gatewayOK
            failed == tokenFailed \/ buildFailed \/ ListedCompletionFailure
        IN  /\ gen.kind = "error" <=> failed
            /\ failed => response.body = NoEnvelope /\ response.status = 500
            /\ (tokenFailed \/ buildFailed) => completions = 0
            /\ ~failed => /\ gen.kind = "envelope"
                          /\ response.status = 200
                          /\ response.body.lyrics = parseLyrics(gen.cresp.choices[1])

\* C15 witness: the gateway answered 401 with a body that has a choice and
\* no error object, and GenerateLyrics returned an error.
C15_Witness ==
    /\ Finished
    /\ gen.kind = "error"
    /\ gen.cresp.status = 401
    /\ gen.cresp.json /\ ~gen.cresp.hasError
    /\ Len(gen.cresp.choices) > 0

\* C16: whatever makes generation fail, and whatever the text of the
\* failure, the response is status 500, error "generation_failed" and one
\* fixed message, with no part of an envelope: every failing run has this
\* response, so two failing runs that differ in the failure have the same.
C16_FailureResponseIsFixed ==
    (Finished /\ gen.kind = "error") =>
        response = [status |-> 500, error |-> "generation_failed",
                    message |-> GenerationFailedMessage, options |-> <<>>,
                    body |-> NoEnvelope]

\* C16 witness: the gateway answered with an error object whose text is the
\* second of the two texts, after a token exchange that succeeded.
C16_Witness ==
    /\ Finished
    /\ gen.kind = "error"
    /\ gen.stage = "completion"
    /\ gen.cresp.hasError
    /\ gen.detail = "d2"

\* C17: on success word_count is the number of words (maximal runs of
\* non-whitespace characters) of the whole text of the first choice, and
\* genre, emotion, language and keywords_used are those of the request as
\* it was submitted.
C17_EnvelopeEchoesRequest ==
    (Finished /\ response.status = 200) =>
        LET md == response.body.metadata
            raw == gen.cresp.choices[1]
        IN  /\ md.word_count = Cardinality(RunStarts(raw))
            /\ md.genre = request.genre
            /\ md.emotion = request.emotion
            /\ md.language = request.language
            /\ md.keywords_used = request.keywords

\* C17 witness: a request with the genre "Pop" got an envelope for a text
\* with a title header and two sections, whose word count includes the
\* words of the header lines.
C17_Witness ==
    /\ Finished
    /\ response.status = 200
    /\ request.genre = <<"P", "o", "p">>
    /\ response.body.lyrics.title # DefaultTitle
    /\ Cardinality(DOMAIN response.body.lyrics.structure) = 2
    /\ response.body.metadata.word_count = 12

\* C18: while one request is handled at most one token exchange is started
\* and at most one completion call is sent, whatever the answers are.
C18_AtMostOneCallEach ==
    Handled =>
        /\ exchanges - startExchanges <= 1
        /\ completions <= 1
        /\ exchanges - startExchanges >= 0

\* C18 witness: a request ended in failure after one token exchange and one
\* completion call that failed on the network.
C18_Witness ==
    /\ Finished
    /\ gen.kind = "error"
    /\ gen.cresp.net = "doErr"
    /\ exchanges - startExchanges = 1
    /\ completions = 1

\* the access tokens of the model, as characters
TokenTexts == {TokenChars(tk) : tk \in TokenValues \ {NoToken}}

\* C19: no diagnostic record holds a credential in clear: not the client
\* id, not an access token (alone or in an Authorization value), and not a
\* body of the token endpoint that carries an access token.
C19_NoCredentialInLog ==
    \A rec \in log :
        /\ ~Contains(rec.value, clientID)
        /\ \A tk \in TokenTexts : ~Contains(rec.value, tk)
        /\ rec.body.access_token = NoToken

\* C20: when the inbound request is cancelled while its token exchange or
\* its completion call is in flight, that call fails on the network and the
\* request ends with an error and without an envelope.
C20_CancelPropagates ==
    (hpc = "responded" /\ cancelled \in {"exchange", "completion"}) =>
        /\ gen.kind = "error"
        /\ response.status = 500
        /\ response.body = NoEnvelope
        /\ cancelled = "exchange" =>
              gen.tokenNet \in {"doErr", "readErr"} /\ completions = 0
        /\ cancelled = "completion" => gen.cresp.net \in {"doErr", "readErr"}

\* C20 witness: a request cancelled during its completion call, and one
\* cancelled during its token exchange, ended in failure; here the first.
C20_Witness ==
    /\ hpc = "responded"
    /\ cancelled = "completion"
    /\ gen.cresp.net \in {"doErr", "readErr"}
    /\ response.status = 500

(***************************************************************************)
(* The rate limit: claim C21.                                              *)
(***************************************************************************)
\* the README's "Rate Limits": 10 requests per minute per client, and a
\* burst allowance of 20 requests
RatePerMinute == 10
RateBurst == 20

\* the most requests of one client that the limit lets through by the
\* second t, counted from second 0
Allowance(t) == RateBurst + (RatePerMinute * t) \div 60

\* C21: the requests of one client that are passed on to the completion
\* API never exceed the allowance of 10 per minute with a burst of 20: the
\* request that exceeds it is rejected, not forwarded.
C21_RateLimited ==
    \A k \in Clients : served[k] <= Allowance(now)

(***************************************************************************)
(* The token cache again: claims C22, C27 and C30.                         *)
(***************************************************************************)
ExchangeInFlight == \E c \in Callers : pc[c] = "inflight"

\* C22: while a token exchange is in flight under the write lock the cached
\* token is empty or stale (now + 30 s is not before its expiry), so a call
\* that finds a fresh token never has an exchange to wait for.
C22_InFlightMeansStale ==
    ExchangeInFlight =>
        /\ writer # NoOne
        /\ accessToken = NoToken \/ ~OutsideBuffer(now, expiresAt)

\* C22 witness: an exchange is in flight while the cache holds a token that
\* has not expired yet but is inside the buffer.
C22_Witness ==
    /\ ExchangeInFlight
    /\ accessToken # NoToken
    /\ Before(Instant(now), expiresAt)

\* the step in which caller c comes back from a token exchange that failed:
\* the request could not be built, or the answer was not a good token
ExchangeFailsFor(c) ==
    /\ pc[c] \in {"wlocked", "inflight"}
    /\ pc'[c] = "done"
    /\ result'[c].requested = 1
    /\ ExchangeOutcome(result'[c].resp) # "ok"

\* C27: a token exchange that fails leaves the cached token and its expiry
\* as they were when it started, releases the write lock, and returns an
\* error and no token, also when the cached token has not expired yet.
C27_FailedExchangeFrame ==
    [][\A c \in Callers : ExchangeFailsFor(c) =>
          /\ accessToken' = accessToken /\ expiresAt' = expiresAt
          /\ accessToken' = result'[c].seenToken /\ expiresAt' = result'[c].seenExp
          /\ writer = c /\ writer' = NoOne
          /\ result'[c].kind = "error"
          /\ result'[c].token = NoToken
          /\ result'[c].err # ""]_vars

\* C27 witness: an exchange failed while the cache held a token that had not
\* expired (it was inside the buffer); the caller has its error, the token
\* is still cached and the lock is free.
C27_Witness ==
    \E c \in Callers :
        /\ Returned(c) /\ result[c].started = 1 /\ result[c].kind = "error"
        /\ result[c].seenToken # NoToken
        /\ Before(Instant(result[c].at), result[c].seenExp)
        /\ accessToken = result[c].seenToken /\ expiresAt = result[c].seenExp
        /\ writer = NoOne

\* caller c is inside GetAccessToken
Calling(c) == pc[c] \in {"rlocked", "wantlock", "wlocked", "inflight"}

\* C30: when every exchange gets an answer and scheduling is fair, every
\* GetAccessToken call returns a token or an error, and the write lock,
\* once taken, is released.
C30_EveryCallReturns ==
    /\ \A c \in Callers :
          Calling(c) ~> (Returned(c) /\ result[c].kind \in {"token", "error"})
    /\ (writer # NoOne) ~> (writer = NoOne)

\* C30 witness: two callers missed the cache together; the exchange of the
\* one failed, and the other, which had waited for the write lock, then
\* made its own exchange and got a token.  Both have returned.
C30_Witness ==
    \E c, d \in Callers :
        /\ c # d
        /\ Returned(c) /\ result[c].kind = "error" /\ result[c].started = 1
        /\ Returned(d) /\ result[d].kind = "token" /\ result[d].path = "fresh"
        /\ writer = NoOne

(***************************************************************************)
(* parseLyrics again: claims C23, C24, C25 and C29.                        *)
(***************************************************************************)
\* the header lines of a text
HeaderLines(input) ==
    {i \in 1..Len(TrimmedLines(input)) : IsHeaderLine(TrimmedLines(input)[i])}

\* the header lines after line i
LaterHeaders(input, i) == {j \in HeaderLines(input) : j > i}

\* the non-blank lines between header i and the next header, or the end
ContentLines(input, i) ==
    LET tl == TrimmedLines(input)
        end == IF LaterHeaders(input, i) # {}
               THEN CHOOSE j \in LaterHeaders(input, i) :
                        \A k \in LaterHeaders(input, i) : j <= k
               ELSE Len(tl) + 1
    IN  SelectSeq(SubSeq(tl, i + 1, end - 1), LAMBDA l : l # <<>>)

\* the headers that open a section of name k, and those of them with content
HeadersNamed(input, k) ==
    {i \in HeaderLines(input) :
        StrippedOpens(TrimmedLines(input)[i]) /\ StrippedName(TrimmedLines(input)[i]) = k}

FilledHeadersNamed(input, k) ==
    {i \in HeadersNamed(input, k) : ContentLines(input, i) # <<>>}

\* the names of the headers that open a section
OpenedNames(input) ==
    {StrippedName(TrimmedLines(input)[i]) :
        i \in {j \in HeaderLines(input) : StrippedOpens(TrimmedLines(input)[j])}}

\* no header of the text opened a section that got a content line
NoFilledHeader(input) ==
    \A k \in OpenedNames(input) : FilledHeadersNamed(input, k) = {}

\* the mapping is the fallback: the text under "verse1"
IsFallback(structure, input) ==
    DOMAIN structure = {DefaultKey} /\ structure[DefaultKey] = input

\* C23: a header that is followed by another header with no content line
\* between them produces no entry: its name is a key only when another
\* header of that name has content (or as the key of the fallback); the
\* text [Verse 1], [Chorus], text gives the key "chorus" only.
C23_EmptySectionGivesNoEntry ==
    Parsed =>
        /\ \A k \in OpenedNames(text) :
              \A i \in HeadersNamed(text, k) :
                 (LaterHeaders(text, i) # {} /\ ContentLines(text, i) = <<>>) =>
                    (k \in DOMAIN lyrics.structure =>
                        \/ FilledHeadersNamed(text, k) \ {i} # {}
                        \/ IsFallback(lyrics.structure, text))
        /\ text = HeaderPairText =>
              lyrics.structure =
                 MapPut(EmptyMap, <<"c", "h", "o", "r", "u", "s">>, <<"t", "e", "x", "t">>)

\* C23 witness: [Verse 1], [Chorus], text was parsed, and "verse 1" is no key.
C23_Witness ==
    /\ Parsed
    /\ text = HeaderPairText
    /\ DOMAIN lyrics.structure = {<<"c", "h", "o", "r", "u", "s">>}

\* the last of a non-empty set of line numbers
LastOf(S) == CHOOSE i \in S : \A j \in S : j <= i

\* C24 as stated: when several headers have one name, the value under that
\* name is the content of the last of them, and nothing else.
C24_LastOccurrenceWins ==
    Parsed =>
        \A k \in OpenedNames(text) :
            (Cardinality(HeadersNamed(text, k)) >= 2 /\ k \in DOMAIN lyrics.structure) =>
                lyrics.structure[k] =
                    Join(ContentLines(text, LastOf(HeadersNamed(text, k))), NL)

\* C24 amended: when several headers have one name, the value under that
\* name is the content of the last of them that has a content line, and
\* nothing else; a later header of the name without content changes
\* nothing, and the name is a key only if one of them has content.  When
\* no header of the whole text has content the mapping is the fallback, the
\* whole text under "verse1", whatever the headers are named.
C24_LastFilledOccurrenceWins ==
    Parsed =>
        \A k \in OpenedNames(text) :
            Cardinality(HeadersNamed(text, k)) >= 2 =>
                IF NoFilledHeader(text)
                THEN IsFallback(lyrics.structure, text)
                ELSE /\ k \in DOMAIN lyrics.structure <=> FilledHeadersNamed(text, k) # {}
                     /\ k \in DOMAIN lyrics.structure =>
                           lyrics.structure[k] =
                               Join(ContentLines(text, LastOf(FilledHeadersNamed(text, k))), NL)

\* C24 witness: a name was opened twice, in different letter case, each
\* time with its own content, and the value is the second content.
C24_Witness ==
    /\ Parsed
    /\ \E k \in OpenedNames(text) :
          /\ Cardinality(FilledHeadersNamed(text, k)) = 2
          /\ \E i, j \in FilledHeadersNamed(text, k) :
                /\ i < j
                /\ TrimmedLines(text)[i] # TrimmedLines(text)[j]
                /\ ContentLines(text, i) # ContentLines(text, j)
                /\ lyrics.structure[k] = Join(ContentLines(text, j), NL)

\* the keys that come from headers: all keys, unless the mapping is the
\* fallback
HeaderKeys == IF NoFilledHeader(text) THEN {} ELSE DOMAIN lyrics.structure

\* the string holds an upper-case letter
HasUpperCase(s) == \E i \in 1..Len(s) : s[i] \in UpperLetters

\* C25: a key that comes from a header holds no upper-case letter and no
\* leading or trailing whitespace; [ Verse 1 ] and [VERSE 1] both give the
\* key "verse 1".
C25_KeysLowerCasedAndTrimmed ==
    Parsed =>
        /\ \A k \in HeaderKeys : ~HasUpperCase(k) /\ TrimSpace(k) = k
        /\ text = SpacedNameText =>
              DOMAIN lyrics.structure = {<<"v", "e", "r", "s", "e", " ", "1">>}

\* C29: the mapping of parseLyrics is never empty; when no section got a
\* content line, also in a text with headers, it is the whole text under
\* "verse1", and the title is still that of the last title header (in
\* lower case, as parseLyrics takes it), if there is one.
C29_NeverEmptyMapping ==
    Parsed =>
        /\ DOMAIN lyrics.structure # {}
        /\ NoFilledHeader(text) =>
              /\ IsFallback(lyrics.structure, text)
              /\ TitleHeaders(text) # {} =>
                    lyrics.title =
                       ToLower(TitleAsWritten(TrimmedLines(text)[LastOf(TitleHeaders(text))]))
              /\ TitleHeaders(text) = {} => lyrics.title = DefaultTitle

\* C29 witness: a text of a title header and a section header without
\* content was parsed: the text is under "verse1" and the title is set.
C29_Witness ==
    /\ Parsed
    /\ TitleHeaders(text) # {}
    /\ HeaderLines(text) \ TitleHeaders(text) # {}
    /\ NoFilledHeader(text)
    /\ IsFallback(lyrics.structure, text)
    /\ lyrics.title \notin {DefaultTitle, <<>>}

(***************************************************************************)
(* The handler again: claims C26 and C28.                                  *)
(***************************************************************************)
\* C26: every request handed to GenerateLyrics, and so to buildPrompt, has
\* chorus = true, whatever the caller sent, and the prompt says
\* "Include chorus: true".
C26_PromptAlwaysHasChorus ==
    PassedValidation =>
        /\ genReq.structure.chorus = TRUE
        /\ buildPrompt(genReq).chorus = <<"t", "r", "u", "e">>
        /\ buildPrompt(genReq).bridge = FormatBool(request.structure.bridge)

\* C26 witness: a request sent with chorus false (or without chorus) passed
\* validation, and its prompt includes a chorus.
C26_Witness ==
    /\ PassedValidation
    /\ request.structure.chorus = FALSE
    /\ buildPrompt(genReq).chorus = <<"t", "r", "u", "e">>

\* the token exchanges started for the request being handled
ExchangesOfRequest == exchanges - startExchanges

\* a request answered 400 has caused no outbound call
RejectedMakesNoCall ==
    (Handled /\ response.status = StatusBadRequest) =>
        (ExchangesOfRequest = 0 /\ completions = 0)

\* a completion call was sent with a token GetAccessToken returned, after
\* GetAccessToken was left, and never after a failed token acquisition
CompletionOnlyWithToken ==
    PassedValidation =>
        /\ completions > 0 => (gen.token # NoToken /\ gen.stage # "token")
        /\ (gen.kind = "error" /\ gen.stage = "token") => completions = 0
        /\ hpc = "completion" => (pc[1] = "idle" /\ writer = NoOne)

\* the step that sends the completion call is the one that takes a token
\* from GetAccessToken, and a token exchange starts only before it
CompletionFollowsToken ==
    /\ completions' > completions =>
          /\ hpc = "token" /\ pc[1] = "done"
          /\ result[1].kind = "token" /\ result[1].token # NoToken
    /\ exchanges' > exchanges => (hpc = "token" /\ completions = 0)

\* C28: the outbound calls of a request come in a fixed order, each after
\* the step before it succeeded.  A request answered 400 has caused no
\* token exchange and no completion call; a completion call is sent only
\* in the step in which GetAccessToken has returned a token, and after it
\* no token exchange starts; a failed token acquisition is followed by no
\* completion call.
C28_CallsInOrder ==
    /\ [](RejectedMakesNoCall /\ CompletionOnlyWithToken)
    /\ [][CompletionFollowsToken]_vars

\* C28 witness: the token exchange of a request failed, the request ended
\* with an error, and no completion call was sent for it.
C28_Witness ==
    /\ hpc = "responded"
    /\ ExchangesOfRequest = 1
    /\ gen.kind = "error" /\ gen.stage = "token"
    /\ completions = 0
    /\ response.status = StatusInternalServerError

====
